---------------------------- MODULE Spec2Model ----------------------------
(***************************************************************************)
(* A model of the bencode codec of bittorent-rust:                         *)
(*   - the byte cursor BencodeDeserializer and its parsers                 *)
(*     (src/src/bencode/core.rs),                                          *)
(*   - the serde binding layer and the serializers                         *)
(*     (src/src/bencode/serde/de.rs, src/src/bencode/serde/ser.rs).        *)
(*                                                                         *)
(* Bytes are the integers 0..255.  Rust indexes from 0 and TLA+ sequences  *)
(* from 1, so the byte input[i] of the code is input[i + 1] here and the   *)
(* slice input[a..b] is SubSeq(input, a + 1, b).                           *)
(*                                                                         *)
(* The machine word (usize) and the integer type (i64) keep a width, but a *)
(* scaled one: UsizeBits and I64Bits bits instead of 64, so that the       *)
(* values next to the limits of both types fit in short inputs.            *)
(***************************************************************************)
EXTENDS Integers, Sequences, FiniteSets, TLC

(***************************************************************************)
(* Bounds of the model.                                                    *)
(***************************************************************************)
UsizeBits == 8
I64Bits == 8
MaxLen == 4

USIZE_MAX == 2 ^ UsizeBits - 1
I64_MAX == 2 ^ (I64Bits - 1) - 1
I64_MIN == -(2 ^ (I64Bits - 1))

(***************************************************************************)
(* Bytes the code names, and bytes the inputs are built from.              *)
(***************************************************************************)
INT == 105
END == 101
LIST == 108
DICT == 100
COLON == 58
MINUS == 45
PLUS == 43
ZERO == 48
ONE == 49
NINE == 57
LETTER_X == 120
BYTE_FF == 255

\* Option::None of input.get(pos)
NONE == -1

is_ascii_digit(b) == b >= ZERO /\ b <= NINE

\* self.input.get(i)
get(input, i) == IF i >= 0 /\ i < Len(input) THEN input[i + 1] ELSE NONE

\* &input[a..b], for a <= b <= len
slice(input, a, b) == SubSeq(input, a + 1, b)

\* usize::saturating_add
saturating_add(a, b) == IF a + b > USIZE_MAX THEN USIZE_MAX ELSE a + b

(***************************************************************************)
(* Results.  A call ends with a value (st = "ok"), with a typed error      *)
(* (st = "err") or by aborting the process (st = "panic"); pos is the      *)
(* cursor the call leaves behind.                                          *)
(***************************************************************************)
Ok(v, p) == [st |-> "ok", pos |-> p, val |-> v]
Err(e, p) == [st |-> "err", pos |-> p, err |-> e]
Panic(why, p) == [st |-> "panic", pos |-> p, why |-> why]

UnexpectedEof == [e |-> "UnexpectedEof"]
CannotParseInteger(kind) == [e |-> "CannotParseInteger", kind |-> kind]
LenSeparatorMissing == [e |-> "LenSeparatorMissing"]
InvalidLen(c) == [e |-> "InvalidLen", c |-> c]
InvalidInteger(c) == [e |-> "InvalidInteger", c |-> c]
InvalidIntegerLeadingZero == [e |-> "InvalidIntegerLeadingZero"]
UnexpectedBencodeType(expected, actual) ==
    [e |-> "UnexpectedBencodeType", expected |-> expected, actual |-> actual]
InvalidString == [e |-> "InvalidString"]
InvalidKey(actual) == [e |-> "InvalidKey", actual |-> actual]

\* BencodeType::from_byte: the tag of a byte, "None" when it is no tag
from_byte(b) ==
    IF b = INT THEN "Integer"
    ELSE IF b = LIST THEN "List"
    ELSE IF b = DICT THEN "Dict"
    ELSE IF is_ascii_digit(b) THEN "ByteString"
    ELSE "None"

\* BencodeType::from_byte_to_received
from_byte_to_received(b) ==
    IF from_byte(b) # "None"
    THEN [known |-> TRUE, type |-> from_byte(b), char |-> NONE]
    ELSE [known |-> FALSE, type |-> "None", char |-> b]

\* BencodeDeserializer::check_type; input[self.pos] aborts when pos is not an index
check_type(input, pos, expected) ==
    IF pos >= Len(input) THEN Panic("index out of bounds", pos)
    ELSE IF from_byte(input[pos + 1]) # expected
    THEN Err(UnexpectedBencodeType(expected, from_byte_to_received(input[pos + 1])), pos)
    ELSE Ok(TRUE, pos)

(***************************************************************************)
(* str::parse::<i64>() and str::parse::<usize>(), as core::num reads the   *)
(* bytes: an optional sign (a '-' only for the signed type), then digits   *)
(* accumulated with checked arithmetic.                                    *)
(***************************************************************************)
RECURSIVE accumulate(_, _, _, _, _)
accumulate(s, i, acc, positive, limit) ==
    IF i > Len(s) THEN [st |-> "ok", val |-> IF positive THEN acc ELSE -acc, kind |-> "none"]
    ELSE IF ~is_ascii_digit(s[i]) THEN [st |-> "err", val |-> 0, kind |-> "InvalidDigit"]
    ELSE LET next == acc * 10 + (s[i] - ZERO)
         IN  IF next > limit
             THEN [st |-> "err", val |-> 0,
                   kind |-> IF positive THEN "PosOverflow" ELSE "NegOverflow"]
             ELSE accumulate(s, i + 1, next, positive, limit)

from_str_radix(s, is_signed_ty, max, min) ==
    IF Len(s) = 0 THEN [st |-> "err", val |-> 0, kind |-> "Empty"]
    ELSE IF Len(s) = 1 /\ s[1] \in {PLUS, MINUS}
    THEN [st |-> "err", val |-> 0, kind |-> "InvalidDigit"]
    ELSE IF s[1] = PLUS THEN accumulate(s, 2, 0, TRUE, max)
    ELSE IF s[1] = MINUS /\ is_signed_ty THEN accumulate(s, 2, 0, FALSE, -min)
    ELSE accumulate(s, 1, 0, TRUE, max)

parse_i64(s) == from_str_radix(s, TRUE, I64_MAX, I64_MIN)
parse_usize(s) == from_str_radix(s, FALSE, USIZE_MAX, 0)

(***************************************************************************)
(* BencodeDeserializer::parse_integer                                      *)
(***************************************************************************)
\* the loop of parse_integer: the index of the first 'e' at or after end_pos
RECURSIVE find_integer_end(_, _)
find_integer_end(input, end_pos) ==
    IF end_pos >= Len(input) THEN [st |-> "err", end_pos |-> end_pos, err |-> UnexpectedEof]
    ELSE IF input[end_pos + 1] = END THEN [st |-> "ok", end_pos |-> end_pos, err |-> UnexpectedEof]
    ELSE IF ~is_ascii_digit(input[end_pos + 1])
    THEN [st |-> "err", end_pos |-> end_pos, err |-> InvalidInteger(input[end_pos + 1])]
    ELSE find_integer_end(input, end_pos + 1)

\* a parse_integer that stores the new position before the text is parsed
parse_integer_moving_first(input, pos) ==
    IF Len(input) < saturating_add(pos, 2) THEN Err(UnexpectedEof, pos)
    ELSE LET ct == check_type(input, pos, "Integer")
         IN  IF ct.st # "ok" THEN ct
             ELSE LET start_pos == pos + 1
                      scan == find_integer_end(input, pos + 2)
                  IN  IF scan.st # "ok" THEN Err(scan.err, pos)
                      ELSE LET s == slice(input, start_pos, scan.end_pos)
                               output == parse_i64(s)
                           IN  IF Len(s) > 1 /\ s[1] = ZERO
                               THEN Err(InvalidIntegerLeadingZero, scan.end_pos + 1)
                               ELSE IF output.st # "ok"
                               THEN Err(CannotParseInteger(output.kind), scan.end_pos + 1)
                               ELSE Ok(output.val, scan.end_pos + 1)

parse_integer(input, pos) ==
    IF Len(input) < saturating_add(pos, 2) THEN Err(UnexpectedEof, pos)
    ELSE LET ct == check_type(input, pos, "Integer")
         IN  IF ct.st # "ok" THEN ct
             ELSE LET start_pos == pos + 1
                      scan == find_integer_end(input, pos + 2)
                  IN  IF scan.st # "ok" THEN Err(scan.err, pos)
                      ELSE LET s == slice(input, start_pos, scan.end_pos)
                               output == parse_i64(s)
                           IN  IF Len(s) > 1 /\ s[1] = ZERO
                               THEN Err(InvalidIntegerLeadingZero, pos)
                               ELSE IF output.st # "ok"
                               THEN Err(CannotParseInteger(output.kind), pos)
                               ELSE Ok(output.val, scan.end_pos + 1)

(***************************************************************************)
(* BencodeDeserializer::parse_bytes.  overflow_checks is the build's       *)
(* setting: with it the addition aborts on overflow, without it the sum    *)
(* wraps around the machine word.                                          *)
(***************************************************************************)
\* self.input[self.pos..].iter().position(|&x| x == b':'), as an index of input
colon_position(input, pos) ==
    LET found == {i \in pos .. Len(input) - 1 : input[i + 1] = COLON}
    IN  IF found = {} THEN NONE ELSE CHOOSE i \in found : \A j \in found : i <= j

\* the first byte of the length prefix that is no digit, NONE when all are digits
first_non_digit(len_slice) ==
    LET bad == {i \in 1 .. Len(len_slice) : ~is_ascii_digit(len_slice[i])}
    IN  IF bad = {} THEN NONE
        ELSE len_slice[CHOOSE i \in bad : \A j \in bad : i <= j]

parse_bytes(input, pos, overflow_checks) ==
    IF Len(input) < pos THEN Err(UnexpectedEof, pos)
    ELSE LET colon_index == colon_position(input, pos)
         IN  IF colon_index = NONE THEN Err(LenSeparatorMissing, pos)
             ELSE LET len_slice == slice(input, pos, colon_index)
                      length == parse_usize(len_slice)
                      sum == colon_index + 1 + length.val
                      end_index == sum % (USIZE_MAX + 1)
                  IN  IF first_non_digit(len_slice) # NONE
                      THEN Err(InvalidLen(first_non_digit(len_slice)), pos)
                      ELSE IF length.st # "ok"
                      THEN Err(CannotParseInteger(length.kind), pos)
                      ELSE IF sum > USIZE_MAX /\ overflow_checks
                      THEN Panic("attempt to add with overflow", pos)
                      ELSE IF end_index > Len(input) THEN Err(UnexpectedEof, pos)
                      ELSE IF colon_index + 1 > end_index
                      THEN Panic("slice index starts after its end", end_index)
                      ELSE Ok(slice(input, colon_index + 1, end_index), end_index)

(***************************************************************************)
(* std::str::from_utf8 on the bytes of the model: a byte below 128 is a    *)
(* character of its own, and BYTE_FF occurs in no UTF-8 encoding.          *)
(***************************************************************************)
is_utf8(bytes) == \A i \in 1 .. Len(bytes) : bytes[i] < 128

\* BencodeDeserializer::parse_str
parse_str(input, pos, overflow_checks) ==
    LET string_slice == parse_bytes(input, pos, overflow_checks)
    IN  IF string_slice.st # "ok" THEN string_slice
        ELSE IF ~is_utf8(string_slice.val) THEN Err(InvalidString, string_slice.pos)
        ELSE string_slice

(***************************************************************************)
(* The generic value tree (enum Bencode) and its parsers.                  *)
(***************************************************************************)
BInteger(n) == [t |-> "Integer", v |-> n]
BBytes(b) == [t |-> "Bytes", v |-> b]
BList(items) == [t |-> "List", v |-> items]
BDict(map) == [t |-> "Dict", v |-> map]

\* BTreeMap::new and BTreeMap::insert: a map is a function on its keys
EmptyMap == [k \in {} |-> 0]
map_insert(map, key, value) ==
    [k \in DOMAIN map \cup {key} |-> IF k = key THEN value ELSE map[k]]

\* self.pos.checked_add(1).expect("Position overflow")
checked_add_one(pos) == IF pos + 1 > USIZE_MAX THEN NONE ELSE pos + 1

get_integer(input, pos) ==
    LET r == parse_integer(input, pos)
    IN  IF r.st = "ok" THEN Ok(BInteger(r.val), r.pos) ELSE r

get_bytes(input, pos, overflow_checks) ==
    LET r == parse_bytes(input, pos, overflow_checks)
    IN  IF r.st = "ok" THEN Ok(BBytes(r.val), r.pos) ELSE r

RECURSIVE get_any(_, _, _)
RECURSIVE get_list(_, _, _)
RECURSIVE get_list_loop(_, _, _, _)
RECURSIVE get_dict(_, _, _)
RECURSIVE get_dict_loop(_, _, _, _)

get_any(input, pos, overflow_checks) ==
    LET b == get(input, pos)
    IN  IF b = NONE THEN Err(UnexpectedEof, pos)
        ELSE IF b = INT THEN get_integer(input, pos)
        ELSE IF b = LIST THEN get_list(input, pos, overflow_checks)
        ELSE IF b = DICT THEN get_dict(input, pos, overflow_checks)
        ELSE IF is_ascii_digit(b) THEN get_bytes(input, pos, overflow_checks)
        ELSE Err(UnexpectedBencodeType("None", from_byte_to_received(b)), pos)

\* the while loop of get_list and the statements after it
get_list_loop(input, pos, items, overflow_checks) ==
    IF get(input, pos) # END
    THEN LET item == get_any(input, pos, overflow_checks)
         IN  IF item.st # "ok" THEN item
             ELSE get_list_loop(input, item.pos, Append(items, item.val), overflow_checks)
    ELSE IF checked_add_one(pos) = NONE THEN Panic("Position overflow", pos)
    ELSE Ok(BList(items), checked_add_one(pos))

get_list(input, pos, overflow_checks) ==
    IF Len(input) < saturating_add(pos, 2) THEN Err(UnexpectedEof, pos)
    ELSE LET ct == check_type(input, pos, "List")
         IN  IF ct.st # "ok" THEN ct
             ELSE IF checked_add_one(pos) = NONE THEN Panic("Position overflow", pos)
             ELSE get_list_loop(input, checked_add_one(pos), <<>>, overflow_checks)

\* the while loop of get_dict and the return after it: pos stays on the 'e'
get_dict_loop(input, pos, map, overflow_checks) ==
    IF get(input, pos) # END
    THEN LET key == parse_bytes(input, pos, overflow_checks)
         IN  IF key.st # "ok" THEN key
             ELSE LET value == get_any(input, key.pos, overflow_checks)
                  IN  IF value.st # "ok" THEN value
                      ELSE get_dict_loop(input, value.pos,
                                         map_insert(map, key.val, value.val),
                                         overflow_checks)
    ELSE Ok(BDict(map), pos)

get_dict(input, pos, overflow_checks) ==
    IF Len(input) < saturating_add(pos, 2) THEN Err(UnexpectedEof, pos)
    ELSE LET ct == check_type(input, pos, "Dict")
         IN  IF ct.st # "ok" THEN ct
             ELSE IF checked_add_one(pos) = NONE THEN Panic("Position overflow", pos)
             ELSE get_dict_loop(input, checked_add_one(pos), EmptyMap, overflow_checks)

(***************************************************************************)
(* BencodeDeserializer::skip_value                                         *)
(***************************************************************************)
RECURSIVE skip_value(_, _, _)
RECURSIVE skip_list_loop(_, _, _)
RECURSIVE skip_dict_loop(_, _, _)

\* pos += 1: in bounds here, since pos < len at each use
skip_value(input, pos, overflow_checks) ==
    LET b == get(input, pos)
    IN  IF b = NONE THEN Err(UnexpectedEof, pos)
        ELSE IF b = INT
        THEN LET r == parse_integer(input, pos)
             IN  IF r.st = "ok" THEN Ok(TRUE, r.pos) ELSE r
        ELSE IF b = LIST THEN skip_list_loop(input, pos + 1, overflow_checks)
        ELSE IF b = DICT THEN skip_dict_loop(input, pos + 1, overflow_checks)
        ELSE IF is_ascii_digit(b)
        THEN LET r == parse_bytes(input, pos, overflow_checks)
             IN  IF r.st = "ok" THEN Ok(TRUE, r.pos) ELSE r
        ELSE Err(UnexpectedBencodeType("None", from_byte_to_received(b)), pos)

\* a list loop that steps over the end marker without looking for it
skip_list_loop_unchecked(input, pos, overflow_checks) ==
    IF pos < Len(input) /\ input[pos + 1] # END
    THEN LET r == skip_value(input, pos, overflow_checks)
         IN  IF r.st # "ok" THEN r ELSE skip_list_loop(input, r.pos, overflow_checks)
    ELSE Ok(TRUE, pos + 1)

skip_list_loop(input, pos, overflow_checks) ==
    IF pos < Len(input) /\ input[pos + 1] # END
    THEN LET r == skip_value(input, pos, overflow_checks)
         IN  IF r.st # "ok" THEN r ELSE skip_list_loop(input, r.pos, overflow_checks)
    ELSE IF pos < Len(input) THEN Ok(TRUE, pos + 1)
    ELSE Err(UnexpectedEof, pos)

skip_dict_loop(input, pos, overflow_checks) ==
    IF pos < Len(input) /\ input[pos + 1] # END
    THEN LET key == skip_value(input, pos, overflow_checks)
         IN  IF key.st # "ok" THEN key
             ELSE IF key.pos < Len(input)
             THEN LET value == skip_value(input, key.pos, overflow_checks)
                  IN  IF value.st # "ok" THEN value
                      ELSE skip_dict_loop(input, value.pos, overflow_checks)
             ELSE Err(UnexpectedEof, key.pos)
    ELSE IF pos < Len(input) THEN Ok(TRUE, pos + 1)
    ELSE Err(UnexpectedEof, pos)

(***************************************************************************)
(* The serializers (serde/ser.rs).  A value of the data model comes with   *)
(* its shape, the Rust type it has:                                        *)
(*   [t |-> "I64"]            an i64, the integer itself                    *)
(*   [t |-> "U8"]             a u8                                          *)
(*   [t |-> "String"]         a String, its UTF-8 bytes                     *)
(*   [t |-> "ByteBuf"]        a serde_bytes byte buffer, its bytes          *)
(*   [t |-> "Vec", of |-> s]  a Vec of values of shape s, a sequence        *)
(*   [t |-> "Map", key |-> k, of |-> s]  a map or struct from keys of shape *)
(*                            k to values of shape s, a function on keys    *)
(***************************************************************************)
I64Shape == [t |-> "I64"]
U8Shape == [t |-> "U8"]
StringShape == [t |-> "String"]
ByteBufShape == [t |-> "ByteBuf"]
VecShape(s) == [t |-> "Vec", of |-> s]
MapShape(k, s) == [t |-> "Map", key |-> k, of |-> s]

\* the decimal digits of n >= 0, as format!("{}", n) writes them
RECURSIVE to_digits(_)
to_digits(n) == IF n < 10 THEN <<ZERO + n>> ELSE Append(to_digits(n \div 10), ZERO + (n % 10))

\* format!("{}", v) of an integer: a '-' and the digits of the magnitude
display(v) == IF v < 0 THEN <<MINUS>> \o to_digits(-v) ELSE to_digits(v)

\* a serializer that writes the magnitude and drops the sign
serialize_i64_unsigned(v) == <<INT>> \o to_digits(IF v < 0 THEN -v ELSE v) \o <<END>>

\* BencodeSerializer::serialize_i8 .. serialize_u64: format!("i{}e", v)
serialize_i64(v) == <<INT>> \o display(v) \o <<END>>

\* u64::MAX in the model's width, and serialize_u64: format!("i{}e", v) on an
\* unsigned value.  serialize_i8 .. serialize_i32 and serialize_u8 ..
\* serialize_u32 are the same format!, their values all in the range of i64.
U64_MAX == 2 ^ I64Bits - 1
U64Shape == [t |-> "U64"]
serialize_u64(v) == <<INT>> \o to_digits(v) \o <<END>>

\* BencodeSerializer::serialize_str: format!("{}:{}", len, v)
serialize_str(v) == to_digits(Len(v)) \o <<COLON>> \o v

\* BencodeSerializer::serialize_bytes
serialize_bytes(v) == to_digits(Len(v)) \o <<COLON>> \o v

\* KeySerializer::serialize_str and serialize_bytes: the PreSerializeKey
\* (length prefix, raw key bytes)
serialize_key_bytes(v) == [prefix |-> to_digits(Len(v)) \o <<COLON>>, raw |-> v]

\* Vec<u8>::cmp: bytewise lexicographic order, a proper prefix first
bytes_less(a, b) ==
    \E k \in 1 .. Len(b) :
        /\ \A j \in 1 .. k - 1 : j <= Len(a) /\ a[j] = b[j]
        /\ k > Len(a) \/ (k <= Len(a) /\ a[k] < b[k])

\* a comparison of the keys as written, length prefix included
key_order_length_prefixed(a, b) ==
    ~bytes_less(b.key.prefix \o b.key.raw, a.key.prefix \o a.key.raw)

\* the comparison finish() sorts by, a.0 .1.cmp(&b.0 .1): may entry a stand before b
key_order(a, b) == ~bytes_less(b.key.raw, a.key.raw)

\* sort_unstable_by: the orders the sort may leave key_values in (one, when the
\* keys differ; entries with equal keys in any order)
sort_unstable_by(key_values) ==
    LET n == Len(key_values)
        perms == {f \in [1 .. n -> 1 .. n] : \A i, j \in 1 .. n : i # j => f[i] # f[j]}
    IN  { [i \in 1 .. n |-> key_values[f[i]]] :
            f \in {g \in perms : \A i \in 1 .. n - 1 :
                                    key_order(key_values[g[i]], key_values[g[i + 1]])} }

\* the loop of finish() over the sorted entries
RECURSIVE extend_entries(_, _)
extend_entries(sorted, i) ==
    IF i > Len(sorted) THEN <<>>
    ELSE sorted[i].key.prefix \o sorted[i].key.raw \o sorted[i].value
             \o extend_entries(sorted, i + 1)

\* BencodeMapSerializer::finish, for one outcome of the sort
finish_sorted(sorted) == <<DICT>> \o extend_entries(sorted, 1) \o <<END>>

\* BencodeMapSerializer::finish: the outputs it may return
finish(key_values) == { finish_sorted(sorted) : sorted \in sort_unstable_by(key_values) }

\* the order in which a map hands out its entries to serialize_map: by
\* ascending keys (a BTreeMap, a struct whose fields are declared so) or by
\* descending keys (a HashMap may, a struct declared the other way round)
iteration_order(map, descending) ==
    CHOOSE order \in [1 .. Cardinality(DOMAIN map) -> DOMAIN map] :
        /\ \A i, j \in DOMAIN order : i # j => order[i] # order[j]
        /\ \A i, j \in DOMAIN order :
               i < j => IF descending THEN bytes_less(order[j], order[i])
                        ELSE bytes_less(order[i], order[j])

\* to_bencode: T::serialize(value, BencodeSerializer), by the shape of T
RECURSIVE to_bencode(_, _, _)
RECURSIVE serialize_elements(_, _, _, _)
RECURSIVE serialize_entries(_, _, _, _, _)

\* SerializeSeq::serialize_element for the elements from i on
serialize_elements(shape, items, i, descending) ==
    IF i > Len(items) THEN <<>>
    ELSE to_bencode(shape, items[i], descending)
             \o serialize_elements(shape, items, i + 1, descending)

\* SerializeMap::serialize_key and serialize_value (or SerializeStruct::
\* serialize_field) for the entries from i on: the key_values they push
serialize_entries(shape, map, order, i, descending) ==
    IF i > Len(order) THEN <<>>
    ELSE <<[key |-> serialize_key_bytes(order[i]),
            value |-> to_bencode(shape, map[order[i]], descending)]>>
             \o serialize_entries(shape, map, order, i + 1, descending)

to_bencode(shape, value, descending) ==
    IF shape.t \in {"I64", "U8"} THEN serialize_i64(value)
    ELSE IF shape.t = "String" THEN serialize_str(value)
    ELSE IF shape.t = "ByteBuf" THEN serialize_bytes(value)
    ELSE IF shape.t = "Vec"
    THEN <<LIST>> \o serialize_elements(shape.of, value, 1, descending) \o <<END>>
    ELSE CHOOSE out \in finish(serialize_entries(shape.of, value,
                                   iteration_order(value, descending), 1, descending)) :
             TRUE

(***************************************************************************)
(* The serde binding of the cursor (serde/de.rs): T::deserialize(&mut de)  *)
(* for a T of the given shape.  The visitors are serde's: the one of an    *)
(* integer type takes an i64 in its range, the one of String takes bytes   *)
(* that are UTF-8, the one of a byte buffer takes bytes or a sequence of   *)
(* u8, the one of Vec takes a sequence, the one of a map takes a map; a    *)
(* visitor handed anything else answers with a custom error.               *)
(***************************************************************************)
Custom == [e |-> "Custom"]

\* check_for_container_type: the room for the opening tag and the 'e'
check_for_container_type(input, pos) ==
    IF Len(input) < saturating_add(pos, 2) THEN Err(UnexpectedEof, pos) ELSE Ok(TRUE, pos)

\* Visitor::visit_i64 of the shape's visitor
visit_i64(shape, v, pos) ==
    IF shape.t = "I64" THEN Ok(v, pos)
    ELSE IF shape.t = "U8" /\ v >= 0 /\ v <= 255 THEN Ok(v, pos)
    ELSE Err(Custom, pos)

\* Visitor::visit_bytes of the shape's visitor
visit_bytes(shape, bytes, pos) ==
    IF shape.t = "ByteBuf" THEN Ok(bytes, pos)
    ELSE IF shape.t = "String" /\ is_utf8(bytes) THEN Ok(bytes, pos)
    ELSE Err(Custom, pos)

\* Visitor::visit_seq on the SeqDeserializer over the bytes of a byte string
visit_seq_of_bytes(shape, bytes, pos) ==
    IF shape.t = "ByteBuf" THEN Ok(bytes, pos)
    ELSE IF shape.t = "Vec" /\ shape.of.t \in {"I64", "U8"} THEN Ok(bytes, pos)
    ELSE IF shape.t = "Vec" /\ Len(bytes) = 0 THEN Ok(<<>>, pos)
    ELSE Err(Custom, pos)

\* the shape of the elements a visitor reads in visit_seq, NONE when it reads none
element_shape(shape) ==
    IF shape.t = "Vec" THEN shape.of
    ELSE IF shape.t = "ByteBuf" THEN U8Shape
    ELSE [t |-> "None"]

\* BencodeSeqAccess::new_list and new_dict
new_access(input, pos, expected) ==
    LET ct == check_type(input, pos, expected)
    IN  IF ct.st # "ok" THEN ct
        ELSE IF checked_add_one(pos) = NONE THEN Panic("Position overflow", pos)
        ELSE Ok(TRUE, checked_add_one(pos))

RECURSIVE deserialize(_, _, _, _)
RECURSIVE deserialize_any(_, _, _, _)
RECURSIVE deserialize_seq(_, _, _, _)
RECURSIVE deserialize_map(_, _, _, _)
RECURSIVE visit_seq(_, _, _, _, _)
RECURSIVE visit_map(_, _, _, _, _)

deserialize_i64(shape, input, pos) ==
    LET value == parse_integer(input, pos)
    IN  IF value.st # "ok" THEN value ELSE visit_i64(shape, value.val, value.pos)

deserialize_bytes(shape, input, pos, overflow_checks) ==
    LET bytes == parse_bytes(input, pos, overflow_checks)
    IN  IF bytes.st # "ok" THEN bytes ELSE visit_bytes(shape, bytes.val, bytes.pos)

deserialize_any(shape, input, pos, overflow_checks) ==
    LET b == get(input, pos)
    IN  IF b = NONE THEN Err(UnexpectedEof, pos)
        ELSE IF b = INT THEN deserialize_i64(shape, input, pos)
        ELSE IF b = LIST THEN deserialize_seq(shape, input, pos, overflow_checks)
        ELSE IF b = DICT THEN deserialize_map(shape, input, pos, overflow_checks)
        ELSE IF is_ascii_digit(b) THEN deserialize_bytes(shape, input, pos, overflow_checks)
        ELSE Err(UnexpectedBencodeType("None", from_byte_to_received(b)), pos)

\* SeqAccess::next_element_seed, as the visitor of a sequence calls it until None
visit_seq(shape, input, pos, items, overflow_checks) ==
    IF element_shape(shape).t = "None" THEN Err(Custom, pos)
    ELSE IF get(input, pos) = END THEN Ok(items, pos + 1)
    ELSE LET value == deserialize(element_shape(shape), input, pos, overflow_checks)
         IN  IF value.st # "ok" THEN value
             ELSE visit_seq(shape, input, value.pos, Append(items, value.val),
                            overflow_checks)

deserialize_seq(shape, input, pos, overflow_checks) ==
    IF get(input, pos) = NONE THEN Err(UnexpectedEof, pos)
    ELSE IF is_ascii_digit(get(input, pos))
    THEN LET elements == parse_bytes(input, pos, overflow_checks)
         IN  IF elements.st # "ok" THEN elements
             ELSE visit_seq_of_bytes(shape, elements.val, elements.pos)
    ELSE LET room == check_for_container_type(input, pos)
             seq_access == new_access(input, pos, "List")
         IN  IF room.st # "ok" THEN room
             ELSE IF seq_access.st # "ok" THEN seq_access
             ELSE visit_seq(shape, input, seq_access.pos, <<>>, overflow_checks)

\* MapAccess::next_key_seed and next_value_seed, as the visitor of a map calls
\* them until None
visit_map(shape, input, pos, map, overflow_checks) ==
    IF shape.t # "Map" THEN Err(Custom, pos)
    ELSE IF get(input, pos) = END THEN Ok(map, pos + 1)
    ELSE IF get(input, pos) = NONE THEN Err(UnexpectedEof, pos)
    ELSE IF ~is_ascii_digit(get(input, pos))
    THEN Err(InvalidKey(from_byte_to_received(get(input, pos))), pos)
    ELSE LET key == deserialize(shape.key, input, pos, overflow_checks)
         IN  IF key.st # "ok" THEN key
             ELSE LET value == deserialize(shape.of, input, key.pos, overflow_checks)
                  IN  IF value.st # "ok" THEN value
                      ELSE visit_map(shape, input, value.pos,
                                     map_insert(map, key.val, value.val), overflow_checks)

\* deserialize_map, and deserialize_struct which calls it
deserialize_map(shape, input, pos, overflow_checks) ==
    LET room == check_for_container_type(input, pos)
        map_access == new_access(input, pos, "Dict")
    IN  IF room.st # "ok" THEN room
        ELSE IF map_access.st # "ok" THEN map_access
        ELSE visit_map(shape, input, map_access.pos, EmptyMap, overflow_checks)

\* <T as Deserialize>::deserialize: the method of the cursor T asks for
deserialize(shape, input, pos, overflow_checks) ==
    IF shape.t = "I64" THEN deserialize_i64(shape, input, pos)
    ELSE IF shape.t = "Vec" THEN deserialize_seq(shape, input, pos, overflow_checks)
    ELSE IF shape.t = "Map" THEN deserialize_map(shape, input, pos, overflow_checks)
    ELSE deserialize_any(shape, input, pos, overflow_checks)

(***************************************************************************)
(* The tree parsers and skip_value, one step at a time.  The calls that    *)
(* have not returned yet are a stack of frames, the innermost first: a     *)
(* call that is about to run (get_any, get_list, get_dict, skip_value), a  *)
(* loop at its head (get_list_loop, get_dict_loop, skip_list_loop,         *)
(* skip_dict_loop) or the second half of skip_value's dictionary loop body *)
(* (skip_dict_value).  A frame holds in `at` the position the cursor had   *)
(* when the frame last started: for a loop, when its last iteration began. *)
(* The values that get_any builds are left out.                            *)
(***************************************************************************)
Frame(fn, at) == [fn |-> fn, at |-> at]

LoopFrames == {"get_list_loop", "get_dict_loop", "skip_list_loop", "skip_dict_loop"}

\* the step goes on at position p with `frames` in place of the innermost frame
Continue(p, frames) == [st |-> "running", pos |-> p, frames |-> frames]

\* a scalar parse as a step: the frame returns, or the whole call fails
Scalar(r) == IF r.st = "ok" THEN Continue(r.pos, <<>>) ELSE r

\* get_list and get_dict up to their loop
enter(input, pos, expected, loop) ==
    IF Len(input) < saturating_add(pos, 2) THEN Err(UnexpectedEof, pos)
    ELSE LET ct == check_type(input, pos, expected)
         IN  IF ct.st # "ok" THEN ct
             ELSE IF checked_add_one(pos) = NONE THEN Panic("Position overflow", pos)
             ELSE Continue(checked_add_one(pos), <<Frame(loop, pos)>>)

\* one step of the innermost frame f
step(f, input, pos, overflow_checks) ==
    LET b == get(input, pos)
    IN  IF f.fn = "get_list" THEN enter(input, pos, "List", "get_list_loop")
        ELSE IF f.fn = "get_dict" THEN enter(input, pos, "Dict", "get_dict_loop")
        ELSE IF f.fn = "get_any"
        THEN IF b = NONE THEN Err(UnexpectedEof, pos)
             ELSE IF b = INT THEN Scalar(parse_integer(input, pos))
             ELSE IF b = LIST THEN enter(input, pos, "List", "get_list_loop")
             ELSE IF b = DICT THEN enter(input, pos, "Dict", "get_dict_loop")
             ELSE IF is_ascii_digit(b) THEN Scalar(parse_bytes(input, pos, overflow_checks))
             ELSE Err(UnexpectedBencodeType("None", from_byte_to_received(b)), pos)
        ELSE IF f.fn = "get_list_loop"
        THEN IF b # END
             THEN Continue(pos, <<Frame("get_any", pos), Frame("get_list_loop", pos)>>)
             ELSE IF checked_add_one(pos) = NONE THEN Panic("Position overflow", pos)
             ELSE Continue(checked_add_one(pos), <<>>)
        ELSE IF f.fn = "get_dict_loop"
        THEN IF b # END
             THEN LET key == parse_bytes(input, pos, overflow_checks)
                  IN  IF key.st # "ok" THEN key
                      ELSE Continue(key.pos,
                                    <<Frame("get_any", key.pos), Frame("get_dict_loop", pos)>>)
             ELSE Continue(pos, <<>>)
        ELSE IF f.fn = "skip_value"
        THEN IF b = NONE THEN Err(UnexpectedEof, pos)
             ELSE IF b = INT THEN Scalar(parse_integer(input, pos))
             ELSE IF b = LIST THEN Continue(pos + 1, <<Frame("skip_list_loop", pos)>>)
             ELSE IF b = DICT THEN Continue(pos + 1, <<Frame("skip_dict_loop", pos)>>)
             ELSE IF is_ascii_digit(b) THEN Scalar(parse_bytes(input, pos, overflow_checks))
             ELSE Err(UnexpectedBencodeType("None", from_byte_to_received(b)), pos)
        ELSE IF f.fn = "skip_list_loop"
        THEN IF pos < Len(input) /\ b # END
             THEN Continue(pos, <<Frame("skip_value", pos), Frame("skip_list_loop", pos)>>)
             ELSE IF pos < Len(input) THEN Continue(pos + 1, <<>>)
             ELSE Err(UnexpectedEof, pos)
        ELSE IF f.fn = "skip_dict_loop"
        THEN IF pos < Len(input) /\ b # END
             THEN Continue(pos, <<Frame("skip_value", pos), Frame("skip_dict_value", pos),
                                  Frame("skip_dict_loop", pos)>>)
             ELSE IF pos < Len(input) THEN Continue(pos + 1, <<>>)
             ELSE Err(UnexpectedEof, pos)
        ELSE \* skip_dict_value: the key is skipped, the value is next
             IF pos < Len(input) THEN Continue(pos, <<Frame("skip_value", pos)>>)
             ELSE Err(UnexpectedEof, pos)

\* the result of the call `name` as the parsers above compute it at once
at_once(name, input, pos, overflow_checks) ==
    IF name = "get_any" THEN get_any(input, pos, overflow_checks)
    ELSE IF name = "get_list" THEN get_list(input, pos, overflow_checks)
    ELSE IF name = "get_dict" THEN get_dict(input, pos, overflow_checks)
    ELSE skip_value(input, pos, overflow_checks)

(***************************************************************************)
(* The peer-wire codec (torrent/network.rs).  A TcpStream is the bytes the *)
(* peer sends, read from a position that only moves forward, and the bytes *)
(* written to it.                                                          *)
(***************************************************************************)
HANDSHAKE_LEN == 68
PSTRLEN == 19
INFO_HASH_LEN == 20
INFO_HASH_AT == 28
PEER_ID_AT == 48

\* b"BitTorrent protocol"
PROTOCOL == <<66, 105, 116, 84, 111, 114, 114, 101, 110, 116, 32,
              112, 114, 111, 116, 111, 99, 111, 108>>

\* const PEER_ID: b"-GT0001-NGO456789012"
PEER_ID == <<45, 71, 84, 48, 48, 48, 49, 45, 78, 71, 79, 52, 53, 54, 55, 56, 57, 48, 49, 50>>

\* enum PeerMessageType, #[repr(u8)]
CHOKE_ID == 0
UNCHOKE_ID == 1
INTERESTED_ID == 2
NOT_INTERESTED_ID == 3
HAVE_ID == 4
BITFIELD_ID == 5
REQUEST_ID == 6
PIECE_ID == 7
CANCEL_ID == 8

\* [0; n]
zeroes(n) == [i \in 1 .. n |-> 0]

\* buf[from..to].copy_from_slice(src), the indices counted from 0
copy_from_slice(buf, from, to, src) ==
    [i \in 1 .. Len(buf) |-> IF i > from /\ i <= to THEN src[i - from] ELSE buf[i]]

\* a handshake without the eight reserved bytes, the info hash right after
\* the protocol name
handshake_without_reserved(info_hash) ==
    LET h0 == [zeroes(HANDSHAKE_LEN) EXCEPT ![1] = PSTRLEN]
        h1 == copy_from_slice(h0, 1, 1 + PSTRLEN, PROTOCOL)
        h2 == copy_from_slice(h1, 1 + PSTRLEN, 1 + PSTRLEN + INFO_HASH_LEN, info_hash)
    IN  copy_from_slice(h2, PEER_ID_AT, HANDSHAKE_LEN, PEER_ID)

\* the handshake PeerClient::new builds
handshake(info_hash) ==
    LET h0 == [zeroes(HANDSHAKE_LEN) EXCEPT ![1] = PSTRLEN]
        h1 == copy_from_slice(h0, 1, 1 + PSTRLEN, PROTOCOL)
        h2 == copy_from_slice(h1, INFO_HASH_AT, INFO_HASH_AT + INFO_HASH_LEN, info_hash)
    IN  copy_from_slice(h2, PEER_ID_AT, HANDSHAKE_LEN, PEER_ID)

\* Read::read_exact: n bytes from position at, or an error at the end of the
\* stream (whatever was left is consumed)
read_exact(stream, at, n) ==
    IF at + n <= Len(stream) THEN [st |-> "ok", pos |-> at + n, val |-> slice(stream, at, at + n)]
    ELSE [st |-> "err", pos |-> Len(stream), err |-> "UnexpectedEof"]

\* BigEndian u32 of four bytes, and back
from_be_bytes(b) == ((b[1] * 256 + b[2]) * 256 + b[3]) * 256 + b[4]
to_be_bytes(n) ==
    <<(n \div 16777216) % 256, (n \div 65536) % 256, (n \div 256) % 256, n % 256>>

\* the PeerMessageType names in the order of their codes
MessageTypes == <<"Choke", "Unchoke", "Interested", "NotInterested", "Have",
                  "Bitfield", "Request", "Piece", "Cancel">>

\* a table that is off by one from Have on
try_from_shifted(code) ==
    IF code \in CHOKE_ID .. NOT_INTERESTED_ID THEN [st |-> "ok", val |-> MessageTypes[code + 1]]
    ELSE IF code \in HAVE_ID .. CANCEL_ID - 1 THEN [st |-> "ok", val |-> MessageTypes[code + 2]]
    ELSE [st |-> "err", err |-> "Unknown", code |-> code]

\* TryFrom<u8> for PeerMessageType
try_from(code) ==
    IF code = CHOKE_ID THEN [st |-> "ok", val |-> "Choke"]
    ELSE IF code = UNCHOKE_ID THEN [st |-> "ok", val |-> "Unchoke"]
    ELSE IF code = INTERESTED_ID THEN [st |-> "ok", val |-> "Interested"]
    ELSE IF code = NOT_INTERESTED_ID THEN [st |-> "ok", val |-> "NotInterested"]
    ELSE IF code = HAVE_ID THEN [st |-> "ok", val |-> "Have"]
    ELSE IF code = BITFIELD_ID THEN [st |-> "ok", val |-> "Bitfield"]
    ELSE IF code = REQUEST_ID THEN [st |-> "ok", val |-> "Request"]
    ELSE IF code = PIECE_ID THEN [st |-> "ok", val |-> "Piece"]
    ELSE IF code = CANCEL_ID THEN [st |-> "ok", val |-> "Cancel"]
    ELSE [st |-> "err", err |-> "Unknown", code |-> code]

\* enum PeerMessage
Message(t) == [t |-> t]
Have(index) == [t |-> "Have", index |-> index]
Bitfield(bits) == [t |-> "Bitfield", bits |-> bits]
Request(piece_info) == [t |-> "Request", piece_info |-> piece_info]
Piece(index, begin, data) == [t |-> "Piece", index |-> index, begin |-> begin, data |-> data]
Cancel(index, begin, length) ==
    [t |-> "Cancel", index |-> index, begin |-> begin, length |-> length]
PieceInfo(index, begin, length) ==
    [index |-> index, begin_bytes_offset |-> begin, length_bytes |-> length]

\* PeerMessage::build_from_type_and_payload
build_from_type_and_payload(message_type, payload) ==
    IF message_type \in {"Choke", "Unchoke", "Interested", "NotInterested"}
    THEN [st |-> "ok", val |-> Message(message_type)]
    ELSE IF message_type = "Have"
    THEN [st |-> "panic", why |-> "not implemented: Have to be implemented"]
    ELSE IF message_type = "Bitfield" THEN [st |-> "ok", val |-> Bitfield(payload)]
    ELSE IF message_type = "Request"
    THEN [st |-> "panic", why |-> "not implemented: Request to be implemented"]
    ELSE IF message_type = "Piece"
    THEN IF Len(payload) < 8
         THEN [st |-> "panic", why |-> "range end index 8 out of range for slice"]
         ELSE IF Len(payload) < 64
         THEN [st |-> "panic", why |-> "range end index 64 out of range for slice"]
         ELSE [st |-> "ok",
               val |-> Piece(from_be_bytes(slice(payload, 0, 4)),
                             from_be_bytes(slice(payload, 4, 8)),
                             slice(payload, 13, 64))]
    ELSE [st |-> "panic", why |-> "not implemented: Cancel to be implemented"]

\* PeerMessage::from_reader: what it returns, the position it leaves the stream
\* at, and the message type it read (its local message_type)
from_reader(stream, at) ==
    LET length == read_exact(stream, at, 4)
        code == read_exact(stream, length.pos, 1)
        message_type == try_from(code.val[1])
        payload == read_exact(stream, code.pos, from_be_bytes(length.val) - 1)
        built == build_from_type_and_payload(message_type.val, payload.val)
    IN  IF length.st # "ok" THEN length @@ [message_type |-> "None"]
        ELSE IF from_be_bytes(length.val) = 0
        THEN [st |-> "err", pos |-> length.pos, err |-> "Keep-alive not handled",
              message_type |-> "None"]
        ELSE IF code.st # "ok" THEN code @@ [message_type |-> "None"]
        ELSE IF message_type.st # "ok"
        THEN message_type @@ [pos |-> code.pos, message_type |-> "None"]
        ELSE IF payload.st # "ok" THEN payload @@ [message_type |-> message_type.val]
        ELSE built @@ [pos |-> payload.pos, message_type |-> message_type.val]

\* PeerMessage::write_to_stream: the bytes it writes
write_to_stream(message) ==
    IF message.t = "Interested" THEN to_be_bytes(1) \o <<INTERESTED_ID>>
    ELSE IF message.t = "Request"
    THEN to_be_bytes(13) \o <<REQUEST_ID>> \o to_be_bytes(message.piece_info.index)
             \o to_be_bytes(message.piece_info.begin_bytes_offset)
             \o to_be_bytes(message.piece_info.length_bytes)
    ELSE <<>>

\* a constructor that returns the client without reading the peer's
\* handshake
new_without_read_back(stream, info_hash, io) ==
    IF io = "connect fails"
    THEN [st |-> "panic", why |-> "Failed to connect to peer", written |-> <<>>,
          pos |-> 0, events |-> <<>>]
    ELSE IF io = "write fails"
    THEN [st |-> "panic", why |-> "Failed to send data to peer", written |-> <<>>,
          pos |-> 0, events |-> <<>>]
    ELSE [st |-> "ok", written |-> handshake(info_hash), pos |-> 0,
          events |-> <<"write handshake">>]

\* PeerClient::new: the bytes written, the position the stream is read up to
\* and whether a client comes back; io is what the network does (connect and
\* write_all succeed or fail)
new(stream, info_hash, io) ==
    LET buffer == read_exact(stream, 0, HANDSHAKE_LEN)
    IN  IF io = "connect fails"
        THEN [st |-> "panic", why |-> "Failed to connect to peer", written |-> <<>>,
              pos |-> 0, events |-> <<>>]
        ELSE IF io = "write fails"
        THEN [st |-> "panic", why |-> "Failed to send data to peer", written |-> <<>>,
              pos |-> 0, events |-> <<>>]
        ELSE IF buffer.st # "ok"
        THEN [st |-> "panic", why |-> "Failed to read data from peer",
              written |-> handshake(info_hash), pos |-> buffer.pos,
              events |-> <<"write handshake">>]
        ELSE [st |-> "ok", written |-> handshake(info_hash), pos |-> buffer.pos,
              buffer |-> buffer.val, events |-> <<"write handshake", "read handshake">>]

(***************************************************************************)
(* MetaInfo::as_piece_infos (torrent/meta.rs): the block requests for the  *)
(* content of a torrent.  The arithmetic is in u64, which has the width of *)
(* usize here, and the fields of a PieceInfo are u32, U32Bits wide in the  *)
(* model; a block has SIXTEEN_KIBIBYTES bytes, 2 ^ BlockBits in the model. *)
(* overflow_checks is the build's setting, as in parse_bytes.              *)
(***************************************************************************)
U32Bits == 4
BlockBits == 2

U32_MAX == 2 ^ U32Bits - 1
SIXTEEN_KIBIBYTES == 2 ^ BlockBits

MetaInfo(length, piece_length) == [length |-> length, piece_length |-> piece_length]

\* `x as u32`
as_u32(x) == x % (U32_MAX + 1)

\* a + b - 1 in u64: the exact value when nothing overflows, the wrapped
\* one otherwise
add_sub_one(a, b) ==
    [overflow |-> a + b > USIZE_MAX \/ a + b = 0,
     val |-> (((a + b) % (USIZE_MAX + 1)) + USIZE_MAX) % (USIZE_MAX + 1)]

\* the inner loop: the blocks block_idx .. num_blocks - 1 of the piece
RECURSIVE blocks_from(_, _, _, _)
blocks_from(piece_idx, piece_size, num_blocks, block_idx) ==
    IF block_idx >= num_blocks THEN <<>>
    ELSE LET begin_offset == block_idx * SIXTEEN_KIBIBYTES
             block_length == IF block_idx = num_blocks - 1
                             THEN piece_size - block_idx * SIXTEEN_KIBIBYTES
                             ELSE SIXTEEN_KIBIBYTES
         IN  <<PieceInfo(as_u32(piece_idx), as_u32(begin_offset), as_u32(block_length))>>
                 \o blocks_from(piece_idx, piece_size, num_blocks, block_idx + 1)

\* the outer loop: the pieces piece_idx .. num_pieces - 1
RECURSIVE pieces_from(_, _, _, _)
pieces_from(self, num_pieces, piece_idx, overflow_checks) ==
    IF piece_idx >= num_pieces THEN [st |-> "ok", val |-> <<>>]
    ELSE LET piece_size == IF piece_idx = num_pieces - 1
                           THEN self.length - piece_idx * self.piece_length
                           ELSE self.piece_length
             rounded == add_sub_one(piece_size, SIXTEEN_KIBIBYTES)
             num_blocks == rounded.val \div SIXTEEN_KIBIBYTES
             rest == pieces_from(self, num_pieces, piece_idx + 1, overflow_checks)
         IN  IF rounded.overflow /\ overflow_checks
             THEN [st |-> "panic", why |-> "attempt to add with overflow"]
             ELSE IF rest.st # "ok" THEN rest
             ELSE [st |-> "ok",
                   val |-> blocks_from(piece_idx, piece_size, num_blocks, 0) \o rest.val]

as_piece_infos(self, overflow_checks) ==
    LET rounded == add_sub_one(self.length, self.piece_length)
    IN  IF rounded.overflow /\ overflow_checks
        THEN [st |-> "panic", why |-> "attempt to add with overflow"]
        ELSE IF self.piece_length = 0
        THEN [st |-> "panic", why |-> "attempt to divide by zero"]
        ELSE pieces_from(self, rounded.val \div self.piece_length, 0, overflow_checks)

(***************************************************************************)
(* The inputs a cursor is created on: every byte sequence over Alphabet of *)
(* at most MaxLen bytes, and longer ones built from tokens: integer tokens *)
(* around the grammar's edges and the limits of i64, byte strings around   *)
(* the limits of usize, and containers of one or two values.               *)
(***************************************************************************)
Alphabet == {INT, END, LIST, DICT, ZERO, ONE, COLON, MINUS}

BoundedSeqs(S, n) == UNION {[1 .. k -> S] : k \in 0 .. n}

IntegerBodies ==
    { <<>>, <<ZERO>>, <<ONE>>, <<ZERO, ONE>>, <<ZERO, ZERO>>, <<ONE, ZERO>>,
      <<MINUS>>, <<PLUS>>, <<MINUS, ONE>>, <<PLUS, ONE>>, <<MINUS, ZERO>>,
      <<MINUS, ZERO, ONE>>, <<LETTER_X>>, <<BYTE_FF>>, <<ONE, LETTER_X>>,
      <<ONE, MINUS, ONE>>,
      display(I64_MAX), display(I64_MAX + 1), display(I64_MIN), display(I64_MIN - 1) }

IntegerTokens == { <<INT>> \o b \o <<END>> : b \in IntegerBodies }

LengthPrefixes ==
    { <<>>, <<ZERO>>, <<ONE>>, <<ZERO, ONE>>, <<LETTER_X>>, <<MINUS, ONE>>, <<PLUS, ONE>>,
      to_digits(2), to_digits(USIZE_MAX - 8), to_digits(USIZE_MAX - 1),
      to_digits(USIZE_MAX), to_digits(USIZE_MAX + 1) }

Contents == { <<>>, <<LETTER_X>>, <<BYTE_FF>>, <<LETTER_X, END>>, <<END, COLON>> }

ByteStringTokens == { p \o <<COLON>> \o c : p \in LengthPrefixes, c \in Contents }

\* encodings of one value each
Values ==
    { <<INT, ONE, END>>, <<INT, MINUS, ONE, END>>, <<ZERO, COLON>>,
      <<ONE, COLON, LETTER_X>>, <<LIST, END>>, <<DICT, END>>,
      <<LIST, INT, ONE, END, END>>, <<DICT, ZERO, COLON, DICT, END, END>> }

Openings == { <<>>, <<LIST>>, <<DICT>>, <<LIST, LIST>>, <<DICT, ZERO, COLON>>,
              <<LETTER_X>> }
Closings == { <<>>, <<END>>, <<END, END>> }

Containers ==
    { o \o v1 \o v2 \o c : o \in Openings, v1 \in Values \cup {<<>>},
                          v2 \in Values \cup {<<>>}, c \in Closings }

NestedTokens ==
    { o \o t \o <<END>> : o \in {<<LIST>>, <<DICT, ZERO, COLON>>},
                          t \in IntegerTokens \cup ByteStringTokens }

Inputs ==
    BoundedSeqs(Alphabet, MaxLen) \cup IntegerTokens \cup ByteStringTokens
        \cup Containers \cup NestedTokens

(***************************************************************************)
(* The values handed to to_bencode: by shape, containers of at most        *)
(* MaxItems items at the top and one item fewer at each level below; the   *)
(* scalars inside a nested container and the keys of a nested map are      *)
(* drawn from the smaller sets.                                            *)
(***************************************************************************)
MaxItems == 2

Ints == {I64_MIN, 0, I64_MAX}
Texts == {<<>>, <<LETTER_X>>, <<ONE, ONE>>}
Buffers == Texts \cup {<<BYTE_FF>>}

FewInts == {I64_MIN, I64_MAX}
FewTexts == {<<>>, <<LETTER_X>>}

Shapes ==
    LET scalars == {I64Shape, StringShape, ByteBufShape}
        flat == {VecShape(s) : s \in scalars}
                    \cup {MapShape(k, s) : k \in {StringShape, ByteBufShape},
                                           s \in {I64Shape, StringShape}}
    IN  scalars \cup flat
            \cup {VecShape(VecShape(I64Shape)), VecShape(MapShape(StringShape, I64Shape)),
                  MapShape(StringShape, VecShape(StringShape)),
                  MapShape(StringShape, MapShape(StringShape, I64Shape))}

\* the values of a shape at nesting depth d, in containers of at most n items
RECURSIVE ValuesOf(_, _, _)
ValuesOf(shape, n, d) ==
    IF shape.t = "I64" THEN IF d <= 1 THEN Ints ELSE FewInts
    ELSE IF shape.t = "String" THEN IF d <= 1 THEN Texts ELSE FewTexts
    ELSE IF shape.t = "ByteBuf" THEN IF d <= 1 THEN Buffers ELSE FewTexts
    ELSE IF n <= 0 THEN IF shape.t = "Vec" THEN {<<>>} ELSE {EmptyMap}
    ELSE IF shape.t = "Vec"
    THEN UNION {[1 .. k -> ValuesOf(shape.of, n - 1, d + 1)] : k \in 0 .. n}
    ELSE UNION {[keys -> ValuesOf(shape.of, n - 1, d + 1)] :
                    keys \in {ks \in SUBSET ValuesOf(shape.key, n, 2 * d) :
                                  Cardinality(ks) <= n}}

(***************************************************************************)
(* The state: one cursor (input, pos), the last call made (op), the cursor *)
(* position before that call (pos0) and what the call returned (res); and  *)
(* for the serializers the value being written and its type (value,        *)
(* shape), the buffer of a BencodeMapSerializer (key_values) and the bytes *)
(* written (output).                                                       *)
(***************************************************************************)
VARIABLES input, pos, op, pos0, res, shape, value, key_values, output,
          stream_in, stream_pos, stream_out, client, events, message, sent,
          tracker_response, peers, info, requests, pieces, current_index, stack

vars == <<input, pos, op, pos0, res, shape, value, key_values, output,
          stream_in, stream_pos, stream_out, client, events, message, sent,
          tracker_response, peers, info, requests, pieces, current_index, stack>>

serializer == <<shape, value, key_values, output>>

connection == <<stream_in, stream_pos, stream_out, client, events, message, sent>>

torrent == <<tracker_response, peers, info, requests, pieces, current_index>>

\* no tracker response, no torrent file and no download yet
NoTorrent ==
    /\ tracker_response = [st |-> "new"]
    /\ peers = [st |-> "new"]
    /\ info = [st |-> "new"]
    /\ requests = <<>>
    /\ pieces = <<>>
    /\ current_index = 0

\* no peer connection yet
NoConnection ==
    /\ stream_in = <<>>
    /\ stream_pos = 0
    /\ stream_out = <<>>
    /\ client = [st |-> "none"]
    /\ events = <<>>
    /\ message = [st |-> "new"]
    /\ sent = [st |-> "new"]

\* BencodeDeserializer::new
Init ==
    /\ input \in Inputs
    /\ pos = 0
    /\ op = "new"
    /\ pos0 = 0
    /\ res = [st |-> "new", pos |-> 0]
    /\ shape = [t |-> "None"]
    /\ value = <<>>
    /\ key_values = <<>>
    /\ output = <<>>
    /\ NoConnection
    /\ NoTorrent
    /\ stack = <<>>

\* a call `name` on the cursor returning r; no call follows an abort
Call(name, r) ==
    /\ res.st # "panic"
    /\ op' = name
    /\ pos0' = pos
    /\ res' = r
    /\ pos' = r.pos
    /\ UNCHANGED input
    /\ UNCHANGED <<serializer, connection, torrent, stack>>

ParseInteger == Call("parse_integer", parse_integer(input, pos))

\* the build (overflow checks on or off) only matters to a call that aborts
\* in both, so it is chosen at the call
ParseBytes == \E overflow_checks \in BOOLEAN :
    Call("parse_bytes", parse_bytes(input, pos, overflow_checks))

ParseStr == \E overflow_checks \in BOOLEAN :
    Call("parse_str", parse_str(input, pos, overflow_checks))

GetAny == \E overflow_checks \in BOOLEAN :
    Call("get_any", get_any(input, pos, overflow_checks))

GetList == \E overflow_checks \in BOOLEAN :
    Call("get_list", get_list(input, pos, overflow_checks))

GetDict == \E overflow_checks \in BOOLEAN :
    Call("get_dict", get_dict(input, pos, overflow_checks))

SkipValue == \E overflow_checks \in BOOLEAN :
    Call("skip_value", skip_value(input, pos, overflow_checks))

\* HashMap::<String, i64>::deserialize(&mut deserializer)
DeserializeMap == \E overflow_checks \in BOOLEAN :
    Call("deserialize_map",
         deserialize(MapShape(StringShape, I64Shape), input, pos, overflow_checks))

\* String::deserialize(&mut deserializer)
DeserializeString == \E overflow_checks \in BOOLEAN :
    Call("deserialize_string", deserialize(StringShape, input, pos, overflow_checks))

Next ==
    \/ ParseInteger
    \/ ParseBytes
    \/ ParseStr
    \/ GetAny
    \/ GetList
    \/ GetDict
    \/ SkipValue
    \/ DeserializeMap
    \/ DeserializeString

Spec == Init /\ [][Next]_vars

(***************************************************************************)
(* Writing a value and reading it back: to_bencode(value), then            *)
(* T::deserialize on a cursor over the bytes written.  A map or struct at  *)
(* the top is also written call by call, as its Serialize does: the        *)
(* entries in any order, then end().                                       *)
(***************************************************************************)
InitSer ==
    /\ input = <<>>
    /\ pos = 0
    /\ op = "new"
    /\ pos0 = 0
    /\ res = [st |-> "new", pos |-> 0]
    /\ shape \in Shapes
    /\ value \in ValuesOf(shape, MaxItems, 0)
    /\ key_values = <<>>
    /\ output = <<>>
    /\ NoConnection
    /\ NoTorrent
    /\ stack = <<>>

cursor == <<input, pos, pos0, res>>

\* the keys of value that serialize_key has been given
serialized_keys == {key_values[i].key.raw : i \in 1 .. Len(key_values)}

\* to_bencode(value)
ToBencode == \E descending \in BOOLEAN :
    /\ op = "new"
    /\ op' = "to_bencode"
    /\ output' = to_bencode(shape, value, descending)
    /\ UNCHANGED <<connection, torrent, stack, cursor, shape, value, key_values>>

\* BencodeSerializer::serialize_map and serialize_struct
SerializeMap ==
    /\ op = "new"
    /\ shape.t = "Map"
    /\ op' = "serialize_map"
    /\ key_values' = <<>>
    /\ UNCHANGED <<connection, torrent, stack, cursor, shape, value, output>>

\* SerializeMap::serialize_key
SerializeKey ==
    /\ op \in {"serialize_map", "serialize_value", "serialize_field"}
    /\ \E key \in DOMAIN value \ serialized_keys :
           key_values' = Append(key_values,
                                [key |-> serialize_key_bytes(key), value |-> <<>>])
    /\ op' = "serialize_key"
    /\ UNCHANGED <<connection, torrent, stack, cursor, shape, value, output>>

\* SerializeMap::serialize_value: the value of the last pair pushed
SerializeValue ==
    /\ op = "serialize_key"
    /\ \E descending \in BOOLEAN :
           LET last == Len(key_values)
           IN  key_values' = [key_values EXCEPT ![last].value =
                   to_bencode(shape.of, value[key_values[last].key.raw], descending)]
    /\ op' = "serialize_value"
    /\ UNCHANGED <<connection, torrent, stack, cursor, shape, value, output>>

\* SerializeStruct::serialize_field
SerializeField ==
    /\ op \in {"serialize_map", "serialize_value", "serialize_field"}
    /\ \E key \in DOMAIN value \ serialized_keys, descending \in BOOLEAN :
           key_values' = Append(key_values,
                                [key |-> serialize_key_bytes(key),
                                 value |-> to_bencode(shape.of, value[key], descending)])
    /\ op' = "serialize_field"
    /\ UNCHANGED <<connection, torrent, stack, cursor, shape, value, output>>

\* SerializeMap::end and SerializeStruct::end
End ==
    /\ op \in {"serialize_map", "serialize_value", "serialize_field"}
    /\ serialized_keys = DOMAIN value
    /\ \E out \in finish(key_values) : output' = out
    /\ op' = "end"
    /\ UNCHANGED <<connection, torrent, stack, cursor, shape, value, key_values>>

\* BencodeDeserializer::new on the bytes written
FromBencode ==
    /\ op \in {"to_bencode", "end"}
    /\ op' = "from_bencode"
    /\ input' = output
    /\ pos' = 0
    /\ pos0' = 0
    /\ res' = [st |-> "new", pos |-> 0]
    /\ UNCHANGED <<serializer, connection, torrent, stack>>

\* T::deserialize(&mut deserializer)
Deserialize == \E overflow_checks \in BOOLEAN :
    /\ op = "from_bencode"
    /\ op' = "deserialize"
    /\ pos0' = pos
    /\ res' = deserialize(shape, input, pos, overflow_checks)
    /\ pos' = res'.pos
    /\ UNCHANGED <<input, serializer, connection, torrent, stack>>

NextSer ==
    \/ ToBencode
    \/ SerializeMap
    \/ SerializeKey
    \/ SerializeValue
    \/ SerializeField
    \/ End
    \/ FromBencode
    \/ Deserialize

SpecSer == InitSer /\ [][NextSer]_vars

(***************************************************************************)
(* One peer connection: the peer's bytes are its answer to the handshake   *)
(* and then at most MaxFrames frames; the client is made by                *)
(* PeerClient::new and then reads and sends messages in any order (main    *)
(* reads, sends Interested, reads, then sends a Request and reads for each *)
(* block).  A call that panics leaves no client.                           *)
(***************************************************************************)
MaxFrames == 2
MaxSends == 1

InfoHashes == {[i \in 1 .. INFO_HASH_LEN |-> i], [i \in 1 .. INFO_HASH_LEN |-> 255]}

\* what a peer may answer the handshake with: its own handshake, one with a
\* wrong length marker, one with a wrong protocol name, or too few bytes
GoodReply == handshake([i \in 1 .. INFO_HASH_LEN |-> i])
Replies ==
    {GoodReply, [GoodReply EXCEPT ![1] = PSTRLEN - 1], [GoodReply EXCEPT ![2] = 98]}
ShortReply == SubSeq(GoodReply, 1, PSTRLEN)

frame(length, id, payload) == to_be_bytes(length) \o <<id>> \o payload

KeepAlive == to_be_bytes(0)

Block == [i \in 1 .. 56 |-> i]

Frames ==
    {KeepAlive}
        \cup {frame(1, id, <<>>) : id \in CHOKE_ID .. NOT_INTERESTED_ID}
        \cup {frame(5, HAVE_ID, to_be_bytes(1)),
              frame(3, BITFIELD_ID, <<255, 128>>),
              frame(13, REQUEST_ID, to_be_bytes(0) \o to_be_bytes(16) \o to_be_bytes(16)),
              frame(65, PIECE_ID, to_be_bytes(1) \o to_be_bytes(16) \o Block),
              frame(11, PIECE_ID, to_be_bytes(0) \o to_be_bytes(0) \o <<1, 2>>),
              frame(13, CANCEL_ID, to_be_bytes(0) \o to_be_bytes(16) \o to_be_bytes(16)),
              frame(1, CANCEL_ID + 1, <<>>),
              frame(3, CHOKE_ID, <<7, 7>>),
              to_be_bytes(5) \o <<HAVE_ID, 0>>}

RECURSIVE concat(_)
concat(frames) == IF frames = <<>> THEN <<>> ELSE Head(frames) \o concat(Tail(frames))

PeerStreams ==
    {ShortReply}
        \cup {reply \o concat(frames) :
                reply \in Replies, frames \in BoundedSeqs(Frames, MaxFrames)}

\* the messages the client sends
Messages == {Message("Interested"), Request(PieceInfo(0, 16, 16)), Message("Choke")}

InitPeer ==
    /\ input = <<>>
    /\ pos = 0
    /\ op = "new"
    /\ pos0 = 0
    /\ res = [st |-> "new", pos |-> 0]
    /\ shape = [t |-> "None"]
    /\ value = <<>>
    /\ key_values = <<>>
    /\ output = <<>>
    /\ stream_in \in PeerStreams
    /\ stream_pos = 0
    /\ stream_out = <<>>
    /\ client = [st |-> "none"]
    /\ events = <<>>
    /\ message = [st |-> "new"]
    /\ sent = [st |-> "new"]
    /\ NoTorrent
    /\ stack = <<>>

bencode == <<input, pos, op, pos0, res, shape, value, key_values, output>>

sends == Cardinality({i \in DOMAIN events : events[i] = "send message"})

\* PeerClient::new(peer, info_hash)
New == \E info_hash \in InfoHashes, io \in {"ok", "connect fails", "write fails"} :
    LET made == new(stream_in, info_hash, io)
    IN  /\ client.st = "none"
        /\ client' = [st |-> IF made.st = "ok" THEN "connected" ELSE "dead",
                      info_hash |-> info_hash]
        /\ stream_out' = made.written
        /\ stream_pos' = made.pos
        /\ events' = made.events
        /\ UNCHANGED <<bencode, torrent, stack, stream_in, message, sent>>

\* PeerClient::read_message: from_reader(..).unwrap()
ReadMessage ==
    LET read == from_reader(stream_in, stream_pos)
    IN  /\ client.st = "connected"
        /\ message' = read @@ [at |-> stream_pos]
        /\ stream_pos' = read.pos
        /\ client' = [client EXCEPT !.st = IF read.st = "ok" THEN "connected" ELSE "dead"]
        /\ events' = Append(events, IF read.st = "ok" THEN "read message"
                                    ELSE "read message fails")
        /\ UNCHANGED <<bencode, torrent, stack, stream_in, stream_out, sent>>

\* PeerClient::send_message: write_to_stream(..).unwrap()
SendMessage == \E sending \in Messages, io \in {"ok", "write fails"} :
    LET written == IF io = "ok" THEN write_to_stream(sending) ELSE <<>>
    IN  /\ client.st = "connected"
        /\ sends < MaxSends
        /\ io = "write fails" => write_to_stream(sending) # <<>>
        /\ stream_out' = stream_out \o written
        /\ client' = [client EXCEPT !.st = IF io = "ok" THEN "connected" ELSE "dead"]
        /\ events' = Append(events, "send message")
        /\ sent' = [st |-> io, message |-> sending, written |-> written]
        /\ UNCHANGED <<bencode, torrent, stack, stream_in, stream_pos, message>>

NextPeer ==
    \/ New
    \/ ReadMessage
    \/ SendMessage

SpecPeer == InitPeer /\ [][NextPeer]_vars

\* tokens far enough into the input for a wrapped length to fall before them
DeepTokens ==
    { o \o t \o c : o \in {<<LIST, LIST, LIST, LIST, LIST>>,
                          <<DICT, ZERO, COLON, LIST, LIST, LIST>>},
                    t \in ByteStringTokens \cup Values,
                    c \in {<<>>, <<END, END, END, END, END>>} }

ParseInputs == Containers \cup NestedTokens \cup DeepTokens

InitParse ==
    /\ input \in ParseInputs
    /\ pos = 0
    /\ op = "new"
    /\ pos0 = 0
    /\ res = [st |-> "new", pos |-> 0]
    /\ shape = [t |-> "None"]
    /\ value = <<>>
    /\ key_values = <<>>
    /\ output = <<>>
    /\ NoConnection
    /\ NoTorrent
    /\ stack = <<>>

\* a call of one of the four parsers begins; the build is fixed for the call
Start == \E name \in {"get_any", "get_list", "get_dict", "skip_value"},
            overflow_checks \in BOOLEAN :
    /\ op = "new"
    /\ op' = name
    /\ pos0' = pos
    /\ res' = [st |-> "running", pos |-> pos, overflow_checks |-> overflow_checks]
    /\ stack' = <<Frame(name, pos)>>
    /\ UNCHANGED <<input, pos, serializer, connection, torrent>>

\* the innermost frame makes its step; the call returns when the last frame
\* has returned, and ends at once on an error or an abort
Step ==
    /\ res.st = "running"
    /\ LET s == step(Head(stack), input, pos, res.overflow_checks)
       IN  /\ pos' = s.pos
           /\ stack' = IF s.st = "running" THEN s.frames \o Tail(stack) ELSE <<>>
           /\ res' = IF s.st # "running"
                     THEN s @@ [overflow_checks |-> res.overflow_checks]
                     ELSE IF s.frames \o Tail(stack) = <<>>
                     THEN [res EXCEPT !.st = "ok", !.pos = s.pos]
                     ELSE [res EXCEPT !.pos = s.pos]
    /\ UNCHANGED <<input, op, pos0, serializer, connection, torrent>>

NextParse ==
    \/ Start
    \/ Step

SpecParse == InitParse /\ [][NextParse]_vars /\ WF_vars(NextParse)

(***************************************************************************)
(* An integer is written by the serializer and the token read by           *)
(* parse_integer.                                                          *)
(***************************************************************************)
InitInt ==
    /\ input = <<>>
    /\ pos = 0
    /\ op = "new"
    /\ pos0 = 0
    /\ res = [st |-> "new", pos |-> 0]
    /\ \/ shape = I64Shape /\ value \in I64_MIN .. I64_MAX
       \/ shape = U64Shape /\ value \in 0 .. U64_MAX
    /\ key_values = <<>>
    /\ output = <<>>
    /\ NoConnection
    /\ NoTorrent
    /\ stack = <<>>

\* value.serialize(BencodeSerializer): serialize_i64 or serialize_u64
SerializeInteger ==
    /\ op = "new"
    /\ op' = "serialize"
    /\ output' = IF shape = I64Shape THEN serialize_i64(value) ELSE serialize_u64(value)
    /\ UNCHANGED <<cursor, shape, value, key_values, connection, torrent, stack>>

\* BencodeDeserializer::new(&output).parse_integer()
ParseEmitted ==
    /\ op = "serialize"
    /\ op' = "parse_integer"
    /\ input' = output
    /\ pos0' = 0
    /\ res' = parse_integer(output, 0)
    /\ pos' = parse_integer(output, 0).pos
    /\ UNCHANGED <<serializer, connection, torrent, stack>>

NextInt ==
    \/ SerializeInteger
    \/ ParseEmitted

SpecInt == InitInt /\ [][NextInt]_vars

(***************************************************************************)
(* The block requests of a torrent: a MetaInfo, as TorrentFile::open       *)
(* reads one or as a caller builds one (its fields are public), and        *)
(* as_piece_infos on it.                                                   *)
(***************************************************************************)
MaxContent == 40
MaxPieceLength == 24

\* contents and piece lengths up to the bounds, and pieces about as long as
\* the machine word allows
MetaInfos ==
    LET small == 0 .. MaxContent
        large == {USIZE_MAX - 1, USIZE_MAX}
    IN  {MetaInfo(length, piece_length) :
            length \in small, piece_length \in 0 .. MaxPieceLength}
            \cup {MetaInfo(length, piece_length) :
                    length \in small \cup large, piece_length \in large}

InitMeta ==
    /\ input = <<>>
    /\ pos = 0
    /\ op = "new"
    /\ pos0 = 0
    /\ res = [st |-> "new", pos |-> 0]
    /\ shape = [t |-> "None"]
    /\ value = <<>>
    /\ key_values = <<>>
    /\ output = <<>>
    /\ NoConnection
    /\ tracker_response = [st |-> "new"]
    /\ peers = [st |-> "new"]
    /\ info \in MetaInfos
    /\ requests = <<>>
    /\ pieces = <<>>
    /\ current_index = 0
    /\ stack = <<>>

\* torrent_file.info.as_piece_infos()
AsPieceInfos == \E overflow_checks \in BOOLEAN :
    LET made == as_piece_infos(info, overflow_checks)
    IN  /\ op = "new"
        /\ op' = "as_piece_infos"
        /\ res' = [st |-> made.st, pos |-> 0]
        /\ requests' = IF made.st = "ok" THEN made.val ELSE <<>>
        /\ UNCHANGED <<input, pos, pos0, serializer, connection, tracker_response, peers,
                       info, pieces, current_index, stack>>

NextMeta == AsPieceInfos

SpecMeta == InitMeta /\ [][NextMeta]_vars

(***************************************************************************)
(* main's download (main.rs:31-54): the client is made for the first peer, *)
(* a message is read, Interested is sent and a second message is read;     *)
(* then, for every request of as_piece_infos, the Request is sent and one  *)
(* message is read, and the data of a Piece message is added to the buffer *)
(* of the current piece.  The peer sends its handshake, a Bitfield, an     *)
(* Unchoke and then at most MaxReplies frames of its choice.               *)
(***************************************************************************)
MaxReplies == 2

\* the peer's answers to a Request: Piece frames with a block long enough
\* for the decoder, for either piece and either offset; the Piece frame for
\* the first block as the wire format has it; and a Choke
ReplyFrames ==
    {frame(65, PIECE_ID, to_be_bytes(index) \o to_be_bytes(begin) \o Block) :
        index \in {0, 1}, begin \in {0, SIXTEEN_KIBIBYTES}}
        \cup {frame(9 + SIXTEEN_KIBIBYTES, PIECE_ID,
                    to_be_bytes(0) \o to_be_bytes(0) \o SubSeq(Block, 1, SIXTEEN_KIBIBYTES)),
              frame(1, CHOKE_ID, <<>>)}

MainStreams ==
    {GoodReply \o frame(3, BITFIELD_ID, <<255, 128>>) \o frame(1, UNCHOKE_ID, <<>>)
         \o concat(replies) : replies \in BoundedSeqs(ReplyFrames, MaxReplies)}

\* torrents of one or two pieces, of one or two blocks
MainInfos ==
    {MetaInfo(length, piece_length) :
        length \in {SIXTEEN_KIBIBYTES, SIXTEEN_KIBIBYTES + 1, 2 * SIXTEEN_KIBIBYTES},
        piece_length \in {SIXTEEN_KIBIBYTES, 2 * SIXTEEN_KIBIBYTES}}

InitMain ==
    /\ input = <<>>
    /\ pos = 0
    /\ op = "new"
    /\ pos0 = 0
    /\ res = [st |-> "new", pos |-> 0]
    /\ shape = [t |-> "None"]
    /\ value = <<>>
    /\ key_values = <<>>
    /\ output = <<>>
    /\ stream_in \in MainStreams
    /\ stream_pos = 0
    /\ stream_out = <<>>
    /\ client = [st |-> "none"]
    /\ events = <<>>
    /\ message = [st |-> "new"]
    /\ sent = [st |-> "new"]
    /\ tracker_response = [st |-> "new"]
    /\ peers = [st |-> "new"]
    /\ info \in MainInfos
    /\ requests = <<>>
    /\ pieces = <<>>
    /\ current_index = 0
    /\ stack = <<>>

\* main.rs:31-42: PeerClient::new, read_message, send_message(Interested),
\* read_message, the empty first buffer and the iterator of requests
Connect == \E info_hash \in InfoHashes :
    LET made == new(stream_in, info_hash, "ok")
        msg_1 == from_reader(stream_in, made.pos)
        msg_2 == from_reader(stream_in, msg_1.pos)
        ok == made.st = "ok" /\ msg_1.st = "ok" /\ msg_2.st = "ok"
    IN  /\ op = "new"
        /\ op' = "connect"
        /\ client' = [st |-> IF ok THEN "connected" ELSE "dead", info_hash |-> info_hash]
        /\ stream_out' = made.written \o write_to_stream(Message("Interested"))
        /\ stream_pos' = msg_2.pos
        /\ events' = made.events \o <<"read message", "send message", "read message">>
        /\ message' = msg_2 @@ [at |-> msg_1.pos]
        /\ sent' = [st |-> "ok", message |-> Message("Interested"),
                    written |-> write_to_stream(Message("Interested"))]
        /\ pieces' = <<<<>>>>
        /\ current_index' = 0
        /\ requests' = as_piece_infos(info, TRUE).val
        /\ UNCHANGED <<cursor, shape, value, key_values, output, stream_in,
                       tracker_response, peers, info, stack>>

\* main.rs:42-54: one turn of the loop
Download ==
    LET piece_info == Head(requests)
        next_piece == piece_info.index # current_index
        index == IF next_piece THEN current_index + 1 ELSE current_index
        buffers == IF next_piece THEN Append(pieces, <<>>) ELSE pieces
        msg_l == from_reader(stream_in, stream_pos)
    IN  /\ client.st = "connected"
        /\ requests # <<>>
        /\ op' = "download"
        /\ current_index' = index
        /\ stream_out' = stream_out \o write_to_stream(Request(piece_info))
        /\ sent' = [st |-> "ok", message |-> Request(piece_info),
                    written |-> write_to_stream(Request(piece_info))]
        /\ message' = msg_l @@ [at |-> stream_pos]
        /\ stream_pos' = msg_l.pos
        /\ client' = [client EXCEPT !.st = IF msg_l.st = "ok" THEN "connected" ELSE "dead"]
        /\ events' = events \o <<"send message",
                                 IF msg_l.st = "ok" THEN "read message"
                                 ELSE "read message fails">>
        /\ pieces' = IF msg_l.st = "ok" /\ msg_l.val.t = "Piece"
                     THEN [buffers EXCEPT ![index + 1] = @ \o msg_l.val.data]
                     ELSE buffers
        /\ requests' = Tail(requests)
        /\ UNCHANGED <<cursor, shape, value, key_values, output, stream_in,
                       tracker_response, peers, info, stack>>

NextMain ==
    \/ Connect
    \/ Download

SpecMain == InitMain /\ [][NextMain]_vars

(***************************************************************************)
(* The tracker's answer (torrent/network.rs): RawTrackerResponse holds the *)
(* peers as one byte string, six bytes a peer, and TrackerResponse::from   *)
(* turns it into socket addresses.                                         *)
(***************************************************************************)
MaxPeerBytes == 13

COMPACT_PEER_LEN == 6

RawTrackerResponse(interval, bytes, complete, incomplete) ==
    [interval |-> interval, peers |-> bytes, complete |-> complete,
     incomplete |-> incomplete]

SocketAddrV4(ip_address, port) == [ip |-> ip_address, port |-> port]

\* u16::from_be_bytes
u16_from_be_bytes(b) == b[1] * 256 + b[2]

\* slice::chunks(n): pieces of n elements, the last one shorter when the
\* length is no multiple of n
RECURSIVE chunks(_, _)
chunks(bytes, n) ==
    IF bytes = <<>> THEN <<>>
    ELSE IF Len(bytes) <= n THEN <<bytes>>
    ELSE <<SubSeq(bytes, 1, n)>> \o chunks(SubSeq(bytes, n + 1, Len(bytes)), n)

\* the loop of TrackerResponse::from over the chunks
RECURSIVE from_chunks(_, _)
from_chunks(todo, addresses) ==
    IF todo = <<>> THEN [st |-> "ok", val |-> addresses]
    ELSE LET chunk == Head(todo)
         IN  IF Len(chunk) < 4
             THEN [st |-> "panic", why |-> "range end index 4 out of range for slice"]
             ELSE IF Len(chunk) < COMPACT_PEER_LEN
             THEN [st |-> "panic", why |-> "range end index 6 out of range for slice"]
             ELSE from_chunks(Tail(todo),
                              Append(addresses,
                                     SocketAddrV4(slice(chunk, 0, 4),
                                                  u16_from_be_bytes(slice(chunk, 4, 6)))))

\* impl From<RawTrackerResponse> for TrackerResponse
from(raw) ==
    LET addresses == from_chunks(chunks(raw.peers, COMPACT_PEER_LEN), <<>>)
    IN  IF addresses.st # "ok" THEN addresses
        ELSE [st |-> "ok",
              val |-> [interval |-> raw.interval, peers |-> addresses.val,
                       complete |-> raw.complete, incomplete |-> raw.incomplete]]

\* the peers byte strings a tracker may send
PeerBytes == BoundedSeqs({1, 255}, MaxPeerBytes)

InitTracker ==
    /\ input = <<>>
    /\ pos = 0
    /\ op = "new"
    /\ pos0 = 0
    /\ res = [st |-> "new", pos |-> 0]
    /\ shape = [t |-> "None"]
    /\ value = <<>>
    /\ key_values = <<>>
    /\ output = <<>>
    /\ NoConnection
    /\ tracker_response \in {RawTrackerResponse(1800, bytes, 1, 0) : bytes \in PeerBytes}
    /\ peers = [st |-> "new"]
    /\ info = [st |-> "new"]
    /\ requests = <<>>
    /\ pieces = <<>>
    /\ current_index = 0
    /\ stack = <<>>

\* TrackerResponse::from(tracker_response), as get_peers calls it
From ==
    /\ peers.st = "new"
    /\ peers' = from(tracker_response)
    /\ UNCHANGED <<bencode, connection, tracker_response, info, requests, pieces,
                   current_index, stack>>

NextTracker == From

SpecTracker == InitTracker /\ [][NextTracker]_vars

(***************************************************************************)
(* The bencode grammar, written down independently of the parsers, for the *)
(* statements below.                                                       *)
(*   integer     = "i" ["-"] 1*DIGIT "e"   no leading zero but "0", no "-0" *)
(*   byte-string = 1*DIGIT ":" <length bytes>                              *)
(*   list        = "l" *value "e"                                          *)
(*   dict        = "d" *(byte-string value) "e"                            *)
(***************************************************************************)
AllDigits(s) == \A k \in 1 .. Len(s) : s[k] \in ZERO .. NINE

\* the number a digit string denotes, cut off above cap
RECURSIVE DecimalUpTo(_, _, _)
DecimalUpTo(s, k, cap) ==
    IF k = 0 THEN 0
    ELSE LET high == DecimalUpTo(s, k - 1, cap)
         IN  IF high > cap THEN high ELSE high * 10 + (s[k] - ZERO)

Decimal(s) == DecimalUpTo(s, Len(s), 4 * (USIZE_MAX + 1))

\* the index of the first byte b at or after index p, NONE when there is none
FirstIndexOf(s, b, p) ==
    IF \E k \in p .. Len(s) - 1 : s[k + 1] = b
    THEN CHOOSE k \in p .. Len(s) - 1 : s[k + 1] = b /\ \A j \in p .. k - 1 : s[j + 1] # b
    ELSE NONE

\* the text of the integer token at p: the bytes between 'i' and the first 'e'
HasIntegerBody(s, p) == get(s, p) = INT /\ FirstIndexOf(s, END, p + 1) # NONE
IntegerBody(s, p) == SubSeq(s, p + 2, FirstIndexOf(s, END, p + 1))

\* its digit string: the body without the one leading '-'
Unsigned(body) == IF Len(body) > 0 /\ body[1] = MINUS THEN Tail(body) ELSE body

\* ["-"] 1*DIGIT
IsSignedDigits(body) == Len(Unsigned(body)) >= 1 /\ AllDigits(Unsigned(body))

\* ["-"] 1*DIGIT without a leading zero (but the bare 0) and without "-0"
IsCanonicalInteger(body) ==
    /\ IsSignedDigits(body)
    /\ Len(Unsigned(body)) > 1 => Unsigned(body)[1] # ZERO
    /\ body # <<MINUS, ZERO>>

IntegerValue(body) ==
    IF body[1] = MINUS THEN -Decimal(Unsigned(body)) ELSE Decimal(body)

InI64(n) == n >= I64_MIN /\ n <= I64_MAX

\* the index just past the value that starts at index p, NONE when no value does
RECURSIVE ValueEnd(_, _)
RECURSIVE ElementsEnd(_, _)
ValueEnd(s, p) ==
    LET b == get(s, p)
    IN  IF b = INT
        THEN IF FirstIndexOf(s, END, p + 1) = NONE THEN NONE
             ELSE FirstIndexOf(s, END, p + 1) + 1
        ELSE IF b \in ZERO .. NINE
        THEN LET c == FirstIndexOf(s, COLON, p)
             IN  IF c = NONE \/ ~AllDigits(SubSeq(s, p + 1, c)) THEN NONE
                 ELSE IF c + 1 + Decimal(SubSeq(s, p + 1, c)) > Len(s) THEN NONE
                 ELSE c + 1 + Decimal(SubSeq(s, p + 1, c))
        ELSE IF b = LIST \/ b = DICT THEN ElementsEnd(s, p + 1)
        ELSE NONE

\* the index just past the 'e' that closes the container whose elements start at p
ElementsEnd(s, p) ==
    IF get(s, p) = NONE THEN NONE
    ELSE IF get(s, p) = END THEN p + 1
    ELSE IF ValueEnd(s, p) = NONE THEN NONE
    ELSE ElementsEnd(s, ValueEnd(s, p))

\* the input ends after the elements that start at p, before a closing 'e'
RECURSIVE ElementsRunOut(_, _)
ElementsRunOut(s, p) ==
    IF get(s, p) = NONE THEN TRUE
    ELSE IF get(s, p) = END \/ ValueEnd(s, p) = NONE THEN FALSE
    ELSE ElementsRunOut(s, ValueEnd(s, p))

\* the values of the elements that start at p, up to the closing 'e', each read
\* by get_any on its own
RECURSIVE ElementsFrom(_, _)
ElementsFrom(s, p) ==
    IF get(s, p) = END \/ ValueEnd(s, p) = NONE THEN <<>>
    ELSE <<get_any(s, p, FALSE).val>> \o ElementsFrom(s, ValueEnd(s, p))

Called(name) == op = name
Returned(name) == op = name /\ res.st = "ok"
Failed(name, e) == op = name /\ res.st = "err" /\ res.err.e = e

(***************************************************************************)
(* C1  Fuzz safety: a decode operation started on a cursor at pos 0, on    *)
(* any input, ends with a value or a typed error; it never aborts.         *)
(***************************************************************************)
C1_FuzzSafety ==
    (op # "new" /\ pos0 = 0) => res.st \in {"ok", "err"}

(***************************************************************************)
(* C2  Cursor precision: after a successful parse_integer, parse_bytes,    *)
(* get_list, get_dict or get_any, pos is the index just past the last byte *)
(* of the value parsed (for a container, just past its own closing 'e');   *)
(* on a buffer that holds exactly one value, pos = len(input).             *)
(***************************************************************************)
C2_CursorPrecision ==
    (/\ op \in {"parse_integer", "parse_bytes", "get_list", "get_dict", "get_any"}
     /\ res.st = "ok")
        => /\ pos = ValueEnd(input, pos0)
           /\ (pos0 = 0 /\ ValueEnd(input, 0) = Len(input)) => pos = Len(input)

(***************************************************************************)
(* C5  Integer grammar: parse_integer returns a value exactly for the      *)
(* tokens 'i' ['-'] digits 'e' without a leading zero (but the bare 0) and *)
(* without "-0" (whose value fits i64, see C7); for every other byte       *)
(* sequence at the cursor it returns an error.                             *)
(***************************************************************************)
C5_IntegerGrammar ==
    Called("parse_integer") =>
        LET wellFormed == /\ HasIntegerBody(input, pos0)
                          /\ IsCanonicalInteger(IntegerBody(input, pos0))
        IN  /\ res.st = "ok" => wellFormed
            /\ ~wellFormed => res.st = "err"
            /\ (wellFormed /\ InI64(IntegerValue(IntegerBody(input, pos0))))
                   => /\ res.st = "ok"
                      /\ res.val = IntegerValue(IntegerBody(input, pos0))

(***************************************************************************)
(* C6  Leading-zero rule: an integer token whose digit string has more     *)
(* than one digit and starts with '0' fails with InvalidIntegerLeadingZero;*)
(* the token i0e succeeds with the value 0.                                *)
(***************************************************************************)
C6_LeadingZeroRule ==
    Called("parse_integer") =>
        /\ (/\ HasIntegerBody(input, pos0)
            /\ IsSignedDigits(IntegerBody(input, pos0))
            /\ Len(Unsigned(IntegerBody(input, pos0))) > 1
            /\ Unsigned(IntegerBody(input, pos0))[1] = ZERO)
               => Failed("parse_integer", "InvalidIntegerLeadingZero")
        /\ (HasIntegerBody(input, pos0) /\ IntegerBody(input, pos0) = <<ZERO>>)
               => res.st = "ok" /\ res.val = 0

(***************************************************************************)
(* C7  Overflow is a distinct error: parse_integer fails with              *)
(* CannotParseInteger only for tokens that are syntactically integers      *)
(* whose value lies outside i64; the two limits of i64 succeed and one     *)
(* beyond either fails with that kind; a structurally malformed token (an  *)
(* empty digit string, a lone '-', a non-digit before 'e') fails with      *)
(* another kind.                                                           *)
(***************************************************************************)
C7_OverflowIsDistinct ==
    (Called("parse_integer") /\ HasIntegerBody(input, pos0)) =>
        LET body == IntegerBody(input, pos0)
        IN  /\ Failed("parse_integer", "CannotParseInteger")
                => IsSignedDigits(body) /\ ~InI64(IntegerValue(body))
            /\ (IsCanonicalInteger(body) /\ ~InI64(IntegerValue(body)))
                => Failed("parse_integer", "CannotParseInteger")
            /\ ~IsSignedDigits(body)
                => res.st = "err" /\ res.err.e # "CannotParseInteger"

(***************************************************************************)
(* C8  Byte-string outcomes: parse_bytes at pos fails with                 *)
(* LenSeparatorMissing if no ':' occurs at or after pos; otherwise with    *)
(* InvalidLen(c) if a byte c before the first ':' is no digit; otherwise   *)
(* with UnexpectedEof if the declared length runs past the end of the      *)
(* input; otherwise it succeeds with the bytes                             *)
(* input[colon+1 .. colon+1+length].  Stated for the length prefixes of    *)
(* one digit or more that denote a machine-word number; the claim names no *)
(* outcome of its own for an empty prefix.                                 *)
(***************************************************************************)
C8_ByteStringOutcomes ==
    Called("parse_bytes") =>
        LET colon == FirstIndexOf(input, COLON, pos0)
            prefix == SubSeq(input, pos0 + 1, colon)
        IN  IF colon = NONE THEN Failed("parse_bytes", "LenSeparatorMissing")
            ELSE IF ~AllDigits(prefix)
            THEN /\ Failed("parse_bytes", "InvalidLen")
                 /\ \E k \in 1 .. Len(prefix) : prefix[k] = res.err.c /\ prefix[k] \notin ZERO .. NINE
            ELSE IF Len(prefix) = 0 \/ Decimal(prefix) > USIZE_MAX THEN TRUE
            ELSE IF colon + 1 + Decimal(prefix) > Len(input)
            THEN Failed("parse_bytes", "UnexpectedEof")
            ELSE /\ res.st = "ok"
                 /\ res.val = SubSeq(input, colon + 2, colon + 1 + Decimal(prefix))

(***************************************************************************)
(* C9  Length-prefix overflow: when the length prefix is a machine-word    *)
(* number L and colon_index + 1 + L exceeds len(input), also when the sum  *)
(* exceeds the largest machine word, parse_bytes returns UnexpectedEof.    *)
(***************************************************************************)
C9_LengthPrefixOverflow ==
    Called("parse_bytes") =>
        LET colon == FirstIndexOf(input, COLON, pos0)
            prefix == SubSeq(input, pos0 + 1, colon)
        IN  (/\ colon # NONE
             /\ Len(prefix) > 0
             /\ AllDigits(prefix)
             /\ Decimal(prefix) <= USIZE_MAX
             /\ colon + 1 + Decimal(prefix) > Len(input))
                => Failed("parse_bytes", "UnexpectedEof")

(***************************************************************************)
(* C10  List parsing: when the byte at the cursor exists and is not 'l',   *)
(* get_list fails with UnexpectedBencodeType{expected: List, actual: the   *)
(* tag of that byte}; when it is 'l', the elements are returned in input   *)
(* order up to the matching 'e'; when the input ends before that 'e' the   *)
(* result is UnexpectedEof.                                                *)
(***************************************************************************)
C10_ListParsing ==
    Called("get_list") =>
        /\ (get(input, pos0) \notin {NONE, LIST})
               => /\ Failed("get_list", "UnexpectedBencodeType")
                  /\ res.err.expected = "List"
                  /\ res.err.actual = from_byte_to_received(get(input, pos0))
        /\ (get(input, pos0) = LIST /\ res.st = "ok")
               => /\ ElementsEnd(input, pos0 + 1) # NONE
                  /\ pos = ElementsEnd(input, pos0 + 1)
                  /\ res.val = BList(ElementsFrom(input, pos0 + 1))
        /\ (get(input, pos0) = LIST /\ ElementsRunOut(input, pos0 + 1))
               => Failed("get_list", "UnexpectedEof")


(***************************************************************************)
(* C3  Round trip: for every value of the data model (integers of the      *)
(* whole signed range, its least and greatest included; byte strings and   *)
(* text, the empty one included; lists; maps and structures with           *)
(* byte-string keys; nested), decoding to_bencode(value) into the same     *)
(* shape succeeds and returns a value equal to the one written.            *)
(***************************************************************************)
C3_RoundTrip == op = "deserialize" => res.st = "ok" /\ res.val = value

\* a map of maps, one of its keys the empty string and one of its integers the
\* least one, has been written and read back
C3_NestedMapReadBack ==
    /\ op = "deserialize"
    /\ res.st = "ok"
    /\ shape = MapShape(StringShape, MapShape(StringShape, I64Shape))
    /\ Cardinality(DOMAIN value) = 2
    /\ <<>> \in DOMAIN value
    /\ \E k \in DOMAIN value : \E j \in DOMAIN value[k] : value[k][j] = I64_MIN

(***************************************************************************)
(* C4  Canonical dictionary encoding: whatever the order in which the      *)
(* entries (distinct byte-string keys) were supplied to the map or struct  *)
(* serializer, the output is 'd', the entries in ascending bytewise        *)
(* lexicographic order of the raw key bytes (not of the length-prefixed    *)
(* form of the key), then 'e'; so it is the same for every order of        *)
(* insertion.                                                              *)
(***************************************************************************)
RECURSIVE RawKeyLess(_, _)
RawKeyLess(a, b) ==
    IF a = <<>> THEN b # <<>>
    ELSE IF b = <<>> THEN FALSE
    ELSE Head(a) < Head(b) \/ (Head(a) = Head(b) /\ RawKeyLess(Tail(a), Tail(b)))

\* the value bytes supplied with a key
SuppliedValue(key) ==
    LET i == CHOOSE j \in 1 .. Len(key_values) : key_values[j].key.raw = key
    IN  key_values[i].value

RECURSIVE EntriesAscending(_)
EntriesAscending(keys) ==
    IF keys = {} THEN <<>>
    ELSE LET least == CHOOSE k \in keys : \A other \in keys \ {k} : RawKeyLess(k, other)
         IN  to_digits(Len(least)) \o <<COLON>> \o least \o SuppliedValue(least)
                 \o EntriesAscending(keys \ {least})

C4_CanonicalDict ==
    op = "end" =>
        /\ output = <<DICT>> \o EntriesAscending(DOMAIN value) \o <<END>>
        /\ \A descending \in BOOLEAN : output = to_bencode(shape, value, descending)

\* two entries were supplied out of order, with keys whose length-prefixed
\* forms stand in the opposite order ("x" then "11"), and end() was called
C4_SuppliedOutOfOrder ==
    /\ op = "end"
    /\ Len(key_values) = 2
    /\ key_values[1].key.raw = <<LETTER_X>>
    /\ key_values[2].key.raw = <<ONE, ONE>>


(***************************************************************************)
(* C11  Dictionary keys must be byte strings: while a dictionary is        *)
(* parsed, by get_dict as well as by the typed MapAccess::next_key_seed,   *)
(* if the byte where a key is expected is neither the end marker 'e' nor   *)
(* an ASCII digit, the parse fails with InvalidKey naming the tag observed *)
(* at that byte.                                                           *)
(***************************************************************************)
\* the index where the parser of the entries that start at p expects a key and
\* finds no byte string: the entries before it were read; NONE when one of them
\* was not
RECURSIVE KeySlot(_, _, _)
KeySlot(s, p, typed) ==
    IF get(s, p) \in ZERO .. NINE
    THEN LET key == IF typed THEN deserialize(StringShape, s, p, TRUE)
                    ELSE parse_bytes(s, p, TRUE)
             entry == IF key.st # "ok" THEN key
                      ELSE IF typed THEN deserialize(I64Shape, s, key.pos, TRUE)
                      ELSE get_any(s, key.pos, TRUE)
         IN  IF entry.st = "ok" THEN KeySlot(s, entry.pos, typed) ELSE NONE
    ELSE p

IsForeignTag(b) == b # NONE /\ b # END /\ b \notin ZERO .. NINE

KeyRejected(name, typed) ==
    LET slot == KeySlot(input, pos0 + 1, typed)
    IN  Called(name) /\ get(input, pos0) = DICT /\ slot # NONE
            /\ IsForeignTag(get(input, slot))
        => res.st = "err" /\ res.err = InvalidKey(from_byte_to_received(get(input, slot)))

C11_KeysMustBeByteStrings ==
    KeyRejected("get_dict", FALSE) /\ KeyRejected("deserialize_map", TRUE)

(***************************************************************************)
(* C12  Skip agrees with full parse: on every input and from every pos,    *)
(* skip_value and get_any either both succeed, leaving pos at the same     *)
(* index, or both fail with the same error kind; a dictionary with a key   *)
(* that is not a byte string is rejected by both alike.                    *)
(***************************************************************************)
SameOutcome(a, b) ==
    /\ a.st = b.st
    /\ a.st = "ok" => a.pos = b.pos
    /\ a.st = "err" => a.err.e = b.err.e

C12_SkipAgreesWithParse ==
    Called("skip_value") =>
        \E overflow_checks \in BOOLEAN :
            SameOutcome(res, get_any(input, pos0, overflow_checks))

(***************************************************************************)
(* C13  Invalid UTF-8 is its own error: a well-formed byte string          *)
(* requested as text, by parse_str or by the typed decode of a String,     *)
(* fails with InvalidString (not a structural kind, not Custom) when its   *)
(* payload is not valid UTF-8, and succeeds with the same bytes when it    *)
(* is.                                                                     *)
(***************************************************************************)
IsByteStringAt(s, p) == get(s, p) \in ZERO .. NINE /\ ValueEnd(s, p) # NONE

Payload(s, p) == SubSeq(s, FirstIndexOf(s, COLON, p) + 2, ValueEnd(s, p))

TextOutcome(name) ==
    Called(name) /\ IsByteStringAt(input, pos0) =>
        IF is_utf8(Payload(input, pos0))
        THEN res.st = "ok" /\ res.val = Payload(input, pos0)
        ELSE res.st = "err" /\ res.err = InvalidString

C13_InvalidUtf8IsItsOwnError ==
    TextOutcome("parse_str") /\ TextOutcome("deserialize_string")

(***************************************************************************)
(* C14  Cursor bounds: in every reachable state of a cursor, after any     *)
(* sequence of calls, successful or failed, 0 <= pos <= len(input).        *)
(***************************************************************************)
C14_CursorBounds == 0 <= pos /\ pos <= Len(input)

\* calls have moved the cursor to the very end of a non-empty input, and a
\* skip_value that failed there has left it at the end
C14_CursorAtEnd ==
    /\ op = "skip_value"
    /\ res.st = "err"
    /\ pos0 > 0
    /\ pos = Len(input)


(***************************************************************************)
(* C15  Handshake layout: the handshake PeerClient::new writes is exactly  *)
(* 68 bytes: byte 0 is 19, bytes 1..20 are 'BitTorrent protocol', bytes    *)
(* 20..28 are zero, bytes 28..48 are the info hash the caller passed and   *)
(* bytes 48..68 are the client's peer id.                                  *)
(***************************************************************************)
C15_HandshakeLayout ==
    Len(stream_out) > 0 =>
        /\ Len(stream_out) >= 68
        /\ stream_out[1] = 19
        /\ SubSeq(stream_out, 2, 20) = PROTOCOL
        /\ \A i \in 21 .. 28 : stream_out[i] = 0
        /\ SubSeq(stream_out, 29, 48) = client.info_hash
        /\ SubSeq(stream_out, 49, 68) = PEER_ID
        /\ client.st = "connected" /\ sends = 0 => Len(stream_out) = 68

\* a client was made for the info hash of twenty 255s
C15_HandshakeWritten ==
    /\ client.st = "connected"
    /\ client.info_hash = [i \in 1 .. 20 |-> 255]
    /\ Len(stream_out) = 68

(***************************************************************************)
(* C16  Handshake precedes framing: on a connection the 68-byte handshake  *)
(* is written and then exactly 68 bytes are read back, once, before any    *)
(* message frame is read or written; no read_message or send_message step  *)
(* happens on a connection whose handshake exchange has not completed.     *)
(***************************************************************************)
IsFrameEvent(e) == e \in {"read message", "read message fails", "send message"}

C16_HandshakePrecedesFraming ==
    /\ \A i \in DOMAIN events :
           /\ events[i] = "write handshake" <=> i = 1
           /\ events[i] = "read handshake" <=> i = 2
           /\ IsFrameEvent(events[i]) => i > 2
    /\ Len(events) >= 2 => Len(stream_out) >= 68 /\ stream_pos >= 68
    /\ Len(events) = 2 => Len(stream_out) = 68 /\ stream_pos = 68

\* a frame was read and a message sent after the handshake exchange
C16_FramesAfterHandshake ==
    /\ Len(events) = 4
    /\ events[3] = "read message"
    /\ events[4] = "send message"

(***************************************************************************)
(* C17  Malformed handshake is fatal: if the 68 bytes read back have a     *)
(* first byte other than 19 or bytes 1..20 other than 'BitTorrent          *)
(* protocol', the connection is failed: no message frame is read from or   *)
(* written to it afterwards.                                               *)
(***************************************************************************)
MalformedReply ==
    /\ Len(stream_in) >= 68
    /\ stream_in[1] # 19 \/ SubSeq(stream_in, 2, 20) # PROTOCOL

C17_MalformedHandshakeIsFatal ==
    MalformedReply => \A i \in DOMAIN events : ~IsFrameEvent(events[i])

(***************************************************************************)
(* C18  Keep-alive is a no-op: when a frame whose length is 0 is read, no  *)
(* error is returned and no byte beyond its length is consumed for it;     *)
(* reading goes on with the next frame, so that keep-alives followed by a  *)
(* frame yield that frame's message.                                       *)
(***************************************************************************)
LengthAt(s, at) == from_be_bytes(slice(s, at, at + 4))

\* the position after the keep-alives that start at position at
RECURSIVE AfterKeepAlives(_, _)
AfterKeepAlives(s, at) ==
    IF at + 4 <= Len(s) /\ LengthAt(s, at) = 0 THEN AfterKeepAlives(s, at + 4) ELSE at

SameRead(a, b) ==
    /\ a.st = b.st
    /\ a.pos = b.pos
    /\ a.st = "ok" => a.val = b.val
    /\ a.st = "err" => a.err = b.err

C18_KeepAliveIsNoOp ==
    message.st # "new" /\ message.at + 4 <= Len(stream_in)
        /\ LengthAt(stream_in, message.at) = 0
    => /\ message.st # "err" \/ message.err # "Keep-alive not handled"
       /\ SameRead(message, from_reader(stream_in, AfterKeepAlives(stream_in, message.at)))

(***************************************************************************)
(* C19  Message-type codes: in a frame of non-zero length the codes 0..8   *)
(* are read as the message types Choke, Unchoke, Interested,               *)
(* NotInterested, Have, Bitfield, Request, Piece, Cancel in this order;    *)
(* any other code makes from_reader return the unknown-message-type error, *)
(* and no frame is decoded from the connection after that.                 *)
(***************************************************************************)
HasTypeCode(s, at) == at + 5 <= Len(s) /\ LengthAt(s, at) # 0

TypeNames == <<"Choke", "Unchoke", "Interested", "NotInterested", "Have",
               "Bitfield", "Request", "Piece", "Cancel">>

C19_MessageTypeCodes ==
    /\ message.st # "new" /\ HasTypeCode(stream_in, message.at) =>
           LET code == stream_in[message.at + 5]
           IN  IF code \in 0 .. 8 THEN message.message_type = TypeNames[code + 1]
               ELSE /\ message.st = "err"
                    /\ message.err = "Unknown"
                    /\ message.code = code
                    /\ client.st = "dead"
    /\ \A i, j \in DOMAIN events :
           i < j /\ events[i] = "read message fails" => ~IsFrameEvent(events[j])

\* a frame was decoded, and the next one had the code 9
C19_UnknownCodeRead ==
    /\ message.st = "err"
    /\ message.err = "Unknown"
    /\ message.code = 9
    /\ message.at > 68

(***************************************************************************)
(* C20  Frame synchronisation: for a frame of declared length L >= 1 with  *)
(* a known type code, from_reader consumes exactly 4 + L bytes whatever    *)
(* the message type, so that a concatenation of frames is decoded into its *)
(* messages in stream order, the reader at a frame boundary after each.    *)
(***************************************************************************)
IsWholeFrame(s, at) ==
    /\ HasTypeCode(s, at)
    /\ s[at + 5] \in 0 .. 8
    /\ at + 4 + LengthAt(s, at) <= Len(s)

C20_FrameSynchronisation ==
    message.st # "new" /\ IsWholeFrame(stream_in, message.at) =>
        /\ stream_pos = message.at + 4 + LengthAt(stream_in, message.at)
        /\ message.st = "ok"
        /\ message.val.t = TypeNames[stream_in[message.at + 5] + 1]


(***************************************************************************)
(* C21  Piece payload: a Piece frame whose payload p has at least 8 bytes  *)
(* is decoded to Piece(index, begin, block) with index the big-endian u32  *)
(* of p[0..4], begin that of p[4..8] and block = p[8..], the L - 9 bytes   *)
(* that are left of a frame of declared length L; decoding aborts for no   *)
(* such L.                                                                 *)
(***************************************************************************)
FramePayload(s, at) == slice(s, at + 5, at + 4 + LengthAt(s, at))

IsFrameOf(s, at, id) == IsWholeFrame(s, at) /\ s[at + 5] = id

C21_PiecePayload ==
    message.st # "new" /\ IsFrameOf(stream_in, message.at, PIECE_ID)
        /\ Len(FramePayload(stream_in, message.at)) >= 8
    => LET p == FramePayload(stream_in, message.at)
       IN  /\ message.st = "ok"
           /\ message.val = Piece(from_be_bytes(slice(p, 0, 4)),
                                  from_be_bytes(slice(p, 4, 8)),
                                  slice(p, 8, Len(p)))
           /\ Len(message.val.data) = LengthAt(stream_in, message.at) - 9

(***************************************************************************)
(* C22  Have/Request/Cancel decoding: a Have frame with a 4-byte payload   *)
(* is decoded to Have(piece index), a Request or Cancel frame with a       *)
(* 12-byte payload to the message with the three big-endian u32 fields     *)
(* index, begin offset and length; reading any of the three returns a      *)
(* message and does not abort.                                             *)
(***************************************************************************)
C22_HaveRequestCancelDecoding ==
    LET at == message.at
        p == FramePayload(stream_in, at)
        field(k) == from_be_bytes(slice(p, 4 * k, 4 * k + 4))
    IN  /\ message.st # "new" /\ IsFrameOf(stream_in, at, HAVE_ID) /\ Len(p) = 4
            => message.st = "ok" /\ message.val = Have(field(0))
        /\ message.st # "new" /\ IsFrameOf(stream_in, at, REQUEST_ID) /\ Len(p) = 12
            => /\ message.st = "ok"
               /\ message.val = Request(PieceInfo(field(0), field(1), field(2)))
        /\ message.st # "new" /\ IsFrameOf(stream_in, at, CANCEL_ID) /\ Len(p) = 12
            => message.st = "ok" /\ message.val = Cancel(field(0), field(1), field(2))


(***************************************************************************)
(* C23  Encoding mirrors decoding: for every PeerMessage m,                *)
(* write_to_stream writes exactly one frame, the 4-byte big-endian length  *)
(* 1 + payload length, the type code and the payload (Interested as        *)
(* 00 00 00 01 02; Request(index, begin, length) as 00 00 00 0D 06 and the *)
(* three big-endian u32 fields), and from_reader on the bytes written      *)
(* returns m.                                                              *)
(***************************************************************************)
\* the type code of a message and the payload of the wire format
CodeOf(m) == CHOOSE id \in CHOKE_ID .. CANCEL_ID : TypeNames[id + 1] = m.t

PayloadOf(m) ==
    IF m.t = "Request"
    THEN to_be_bytes(m.piece_info.index) \o to_be_bytes(m.piece_info.begin_bytes_offset)
             \o to_be_bytes(m.piece_info.length_bytes)
    ELSE <<>>

C23_EncodingMirrorsDecoding ==
    sent.st = "ok" =>
        /\ sent.written = frame(1 + Len(PayloadOf(sent.message)), CodeOf(sent.message),
                                PayloadOf(sent.message))
        /\ from_reader(sent.written, 0).st = "ok"
        /\ from_reader(sent.written, 0).val = sent.message


(***************************************************************************)
(* C24  Compact peer list: for every peers byte string,                    *)
(* TrackerResponse::from yields one socket address for each complete       *)
(* 6-byte group, in the order of the input, the k-th with the IPv4 address *)
(* bytes[6k .. 6k+4] and the port 256 * bytes[6k+4] + bytes[6k+5]; it      *)
(* reads nothing outside the byte string, whatever its length.             *)
(***************************************************************************)
C24_CompactPeerList ==
    peers.st # "new" =>
        LET bytes == tracker_response.peers
        IN  /\ peers.st = "ok"
            /\ peers.val.peers =
                   [k \in 1 .. Len(bytes) \div 6 |->
                       [ip |-> slice(bytes, 6 * (k - 1), 6 * (k - 1) + 4),
                        port |-> 256 * bytes[6 * (k - 1) + 5] + bytes[6 * (k - 1) + 6]]]


(***************************************************************************)
(* C25  A dictionary nested in a container does not swallow its siblings:  *)
(* get_list on 'l' ++ enc(d) ++ enc(x1) ++ ... ++ enc(xn) ++ 'e' with d a  *)
(* dictionary returns the list [d, x1, ..., xn]; the parse of d consumes   *)
(* d's own closing 'e', which is never taken for the end of the enclosing  *)
(* list.                                                                   *)
(***************************************************************************)
\* every element that starts at p, up to the closing 'e', is a value that
\* get_any reads on its own
RECURSIVE EachParses(_, _)
EachParses(s, p) ==
    IF get(s, p) = END THEN TRUE
    ELSE /\ ValueEnd(s, p) # NONE
         /\ get_any(s, p, FALSE).st = "ok"
         /\ EachParses(s, ValueEnd(s, p))

\* the number of elements that start at p, up to the closing 'e'
RECURSIVE ElementsCount(_, _)
ElementsCount(s, p) ==
    IF get(s, p) = END \/ ValueEnd(s, p) = NONE THEN 0
    ELSE 1 + ElementsCount(s, ValueEnd(s, p))

C25_DictKeepsItsSiblings ==
    (/\ Called("get_list")
     /\ pos0 = 0
     /\ get(input, 0) = LIST
     /\ get(input, 1) = DICT
     /\ ElementsEnd(input, 1) = Len(input)
     /\ EachParses(input, 1))
        => /\ res.st = "ok"
           /\ Len(res.val.v) = ElementsCount(input, 1)
           /\ res.val.v = ElementsFrom(input, 1)
           /\ pos = Len(input)


(***************************************************************************)
(* C26  Failed scalar parses do not move the cursor: a call of             *)
(* parse_integer or parse_bytes that returns an error leaves pos as it was *)
(* before the call (pos is written on the success path only), and no parse *)
(* ever changes the input buffer.                                          *)
(***************************************************************************)
C26_FailedParseKeepsCursor ==
    [][/\ input' = input
       /\ (op' \in {"parse_integer", "parse_bytes"} /\ res'.st = "err") => pos' = pos]_vars

\* an integer without digits is refused after an earlier parse has moved
\* the cursor
C26_FailedAfterProgress ==
    /\ op = "parse_integer"
    /\ res.st = "err"
    /\ res.err.e = "CannotParseInteger"
    /\ pos0 > 0
    /\ pos = pos0


(***************************************************************************)
(* C27  Parsing terminates: every call of get_any, get_list, get_dict or   *)
(* skip_value on a finite input ends after finitely many steps, because    *)
(* each iteration of a list or dictionary loop either returns an error or  *)
(* strictly increases pos, and pos never decreases during a parse.         *)
(***************************************************************************)
\* the call has ended: it returned a value or an error, or it aborted
Ended == res.st \in {"ok", "err", "panic"}

\* a loop that is back at its head is further on than when its last
\* iteration began
LoopProgress == (stack # <<>> /\ Head(stack).fn \in LoopFrames) => pos > Head(stack).at

C27_ParsingTerminates ==
    /\ <>Ended
    /\ []LoopProgress
    /\ [][pos' >= pos]_vars


(***************************************************************************)
(* C28  Every integer the encoder emits is decodable: for every value      *)
(* serialize_i8 .. serialize_i64 and serialize_u8 .. serialize_u64 accept, *)
(* every u64 above i64::MAX among them, the token i<digits>e they emit is  *)
(* accepted by parse_integer and decodes to the same number.               *)
(***************************************************************************)
C28_EmittedIntegersDecode ==
    (op = "parse_integer" /\ shape.t \in {"I64", "U64"}) =>
        /\ res.st = "ok"
        /\ res.val = value
        /\ pos = Len(output)


(***************************************************************************)
(* C29  Block requests partition the content: for every MetaInfo with      *)
(* piece_length > 0, as_piece_infos yields its requests in ascending       *)
(* (index, begin_bytes_offset) order; within a piece the blocks start at   *)
(* offset 0 and follow each other without gap or overlap; every block has  *)
(* 1 <= length_bytes <= 16 KiB; every piece but the last totals            *)
(* piece_length bytes; and the lengths of all requests add up to length    *)
(* (no request when length is 0).                                          *)
(***************************************************************************)
RECURSIVE TotalLength(_)
TotalLength(rs) == IF rs = <<>> THEN 0 ELSE Head(rs).length_bytes + TotalLength(Tail(rs))

\* the requests of piece k, in their order
RECURSIVE RequestsOf(_, _)
RequestsOf(rs, k) ==
    IF rs = <<>> THEN <<>>
    ELSE IF Head(rs).index = k THEN <<Head(rs)>> \o RequestsOf(Tail(rs), k)
    ELSE RequestsOf(Tail(rs), k)

C29_RequestsPartitionContent ==
    (op = "as_piece_infos" /\ info.piece_length > 0) =>
        /\ res.st = "ok"
        /\ \A i \in 2 .. Len(requests) :
               LET prev == requests[i - 1]
                   this == requests[i]
               IN  \/ /\ this.index = prev.index
                      /\ this.begin_bytes_offset = prev.begin_bytes_offset + prev.length_bytes
                   \/ /\ this.index > prev.index
                      /\ this.begin_bytes_offset = 0
        /\ Len(requests) > 0 => requests[1].begin_bytes_offset = 0
        /\ \A i \in 1 .. Len(requests) :
               requests[i].length_bytes \in 1 .. SIXTEEN_KIBIBYTES
        /\ \A i \in 1 .. Len(requests) :
               requests[i].index # requests[Len(requests)].index
                   => TotalLength(RequestsOf(requests, requests[i].index)) = info.piece_length
        /\ TotalLength(requests) = info.length


(***************************************************************************)
(* C30  The download loop stores what it asked for: after Request(k,       *)
(* begin, len) is sent exactly one message is read before the next Request *)
(* is sent; bytes are added to the buffer of piece k only from a Piece     *)
(* message whose index is k and whose begin offset is begin; so when the   *)
(* loop ends the buffer of each piece k holds the blocks requested for     *)
(* piece k, in ascending order of begin.                                   *)
(***************************************************************************)
\* the events of the loop: what follows the five events of the connection
LoopEvents == SubSeq(events, 6, Len(events))

\* the loop is over and the client is still there
LoopEnded == op = "download" /\ requests = <<>> /\ client.st = "connected"

C30_DownloadStoresWhatItAskedFor ==
    op = "download" =>
        /\ \A i \in 1 .. Len(LoopEvents) :
               IF i % 2 = 1 THEN LoopEvents[i] = "send message"
               ELSE LoopEvents[i] \in {"read message", "read message fails"}
        /\ (message.st = "ok" /\ message.val.t = "Piece") =>
               /\ message.val.index = sent.message.piece_info.index
               /\ message.val.begin = sent.message.piece_info.begin_bytes_offset
               /\ Len(message.val.data) = sent.message.piece_info.length_bytes
        /\ LoopEnded =>
               \A k \in 0 .. Len(pieces) - 1 :
                   Len(pieces[k + 1]) =
                       TotalLength(RequestsOf(as_piece_infos(info, TRUE).val, k))

=============================================================================
